---- MODULE Spec2Model ----
(***************************************************************************)
(* A model of product-documenter: the ledger (activities, documents,       *)
(* ai_costs), the review workflow on the file system, the reconciliation   *)
(* of a submitted review file with its document, the cost governor and     *)
(* the pattern-learning engine.                                            *)
(*                                                                         *)
(* Text is a sequence of characters (one-character strings); "\n" is the   *)
(* line break.  A long literal of a template is kept as one element of     *)
(* the sequence (a chunk such as "# REVIEW INSTRUCTIONS") where no         *)
(* operation of the program looks inside it.                               *)
(* Money is counted in micro-dollars and is an integer: calculate_cost's   *)
(* (tokens / 1000) * 0.002 dollars is tokens * 2 micro-dollars.            *)
(***************************************************************************)
EXTENDS Integers, Sequences, FiniteSets, TLC

VARIABLES activities, documents, ai_costs, learning_patterns, insights,
          files, meta, config, call

vars == <<activities, documents, ai_costs, learning_patterns, insights,
          files, meta, config, call>>

db == <<activities, documents, ai_costs, learning_patterns, insights>>
fs == <<files, meta>>

(***************************************************************************)
(* Bounds of the model.                                                    *)
(***************************************************************************)
MaxCosts == 3
MaxGovRuns == 2

\* The tokens a generation that succeeds may use (the simulated one counts 800).
TokenChoices == { 500, 900 }

(***************************************************************************)
(* Text: Python's str operations, on sequences of characters.              *)
(***************************************************************************)
NL == "\n"

\* the indices 1 .. n in order
IndexSeq(n) == [ i \in 1..n |-> i ]

\* p occurs in s at index i (i + Len(p) - 1 <= Len(s))
MatchAt(s, p, i) == \A k \in 1..Len(p) : s[i + k - 1] = p[k]

\* s.startswith(p)
StartsWith(s, p) == Len(p) <= Len(s) /\ MatchAt(s, p, 1)

\* p in s
Contains(s, p) == \E i \in 1..(Len(s) - Len(p) + 1) : MatchAt(s, p, i)

\* the indices at which p occurs in s, ascending
Occurrences(s, p) ==
  SelectSeq(IndexSeq(Len(s) - Len(p) + 1), LAMBDA i : MatchAt(s, p, i))

RECURSIVE SplitFrom(_, _, _, _)
\* the parts of s from index from on; occ holds the occurrences of sep not
\* yet looked at, and one that overlaps the separator before it is skipped
SplitFrom(s, sep, from, occ) ==
  IF Len(occ) = 0 THEN << SubSeq(s, from, Len(s)) >>
  ELSE IF Head(occ) < from THEN SplitFrom(s, sep, from, Tail(occ))
  ELSE << SubSeq(s, from, Head(occ) - 1) >>
       \o SplitFrom(s, sep, Head(occ) + Len(sep), Tail(occ))

\* s.split(sep), sep not empty
Split(s, sep) == SplitFrom(s, sep, 1, Occurrences(s, sep))

RECURSIVE Join(_, _)
\* sep.join(parts)
Join(parts, sep) ==
  IF Len(parts) = 0 THEN << >>
  ELSE IF Len(parts) = 1 THEN parts[1]
  ELSE parts[1] \o sep \o Join(Tail(parts), sep)

\* s.replace(old, "")
Remove(s, old) == Join(Split(s, old), << >>)

Whitespace == { " ", NL, "\t" }

\* s.strip()
Strip(s) ==
  LET keep == SelectSeq(IndexSeq(Len(s)), LAMBDA i : s[i] \notin Whitespace)
  IN  IF Len(keep) = 0 THEN << >> ELSE SubSeq(s, keep[1], keep[Len(keep)])

\* s[n:]
DropFirst(s, n) == SubSeq(s, n + 1, Len(s))

\* s[:n]
TakeFirst(s, n) == SubSeq(s, 1, IF n < Len(s) THEN n ELSE Len(s))

RECURSIVE SumSeq(_)
SumSeq(s) == IF Len(s) = 0 THEN 0 ELSE Head(s) + SumSeq(Tail(s))

SetMax(S) == CHOOSE x \in S : \A y \in S : y <= x

SetMin(S) == CHOOSE x \in S : \A y \in S : x <= y

(***************************************************************************)
(* difflib, as extract_patterns uses it: SequenceMatcher(None, a, b) on    *)
(* lists of lines (no junk; the autojunk heuristic needs 200 lines), and   *)
(* unified_diff(a, b, lineterm='', n=3).  Windows are Python's: 0-based,   *)
(* alo inclusive, ahi exclusive.                                           *)
(***************************************************************************)
RECURSIVE MatchLen(_, _, _, _, _, _)
\* the length of the longest common run of a from i and b from j in the window
MatchLen(a, b, i, j, ahi, bhi) ==
  IF i < ahi /\ j < bhi /\ a[i + 1] = b[j + 1]
  THEN 1 + MatchLen(a, b, i + 1, j + 1, ahi, bhi)
  ELSE 0

\* SequenceMatcher.find_longest_match: a longest matching block of the
\* window; of those the one that starts earliest in a, and of those the one
\* that starts earliest in b; (alo, blo, 0) when nothing matches.
find_longest_match(a, b, alo, ahi, blo, bhi) ==
  LET rowbest == [ i \in alo..(ahi - 1) |->
                   SetMax({ 0 } \cup { MatchLen(a, b, i, j, ahi, bhi) :
                                         j \in { k \in blo..(bhi - 1) : a[i + 1] = b[k + 1] } }) ]
      best    == SetMax({ 0 } \cup { rowbest[i] : i \in alo..(ahi - 1) })
      i0      == SetMin({ i \in alo..(ahi - 1) : rowbest[i] = best })
      j0      == SetMin({ j \in blo..(bhi - 1) :
                            a[i0 + 1] = b[j + 1] /\ MatchLen(a, b, i0, j, ahi, bhi) = best })
  IN  IF best = 0 THEN [ i |-> alo, j |-> blo, size |-> 0 ]
      ELSE [ i |-> i0, j |-> j0, size |-> best ]

\* The lines of the diff between the headers, from get_matching_blocks'
\* recursion to the left and to the right of the longest block: a matched
\* line with ' ', an unmatched line of a with '-', then one of b with '+'.
\* unified_diff drops the equal lines more than n = 3 away from a change and
\* starts a hunk with an '@@' line; extract_patterns reads neither kind.
RECURSIVE DiffBody(_, _, _, _, _, _)
DiffBody(a, b, alo, ahi, blo, bhi) ==
  LET m == find_longest_match(a, b, alo, ahi, blo, bhi)
  IN  IF m.size = 0
      THEN [ k \in 1..(ahi - alo) |-> << "-" >> \o a[alo + k] ]
           \o [ k \in 1..(bhi - blo) |-> << "+" >> \o b[blo + k] ]
      ELSE DiffBody(a, b, alo, m.i, blo, m.j)
           \o [ k \in 1..m.size |-> << " " >> \o a[m.i + k] ]
           \o DiffBody(a, b, m.i + m.size, ahi, m.j + m.size, bhi)

\* a diff that pairs no line of a with a line of b: every line of a removed,
\* every line of b added, whether or not the lists are equal
UnifiedDiffWithoutMatching(a, b) ==
  << << "-", "-", "-", " " >>, << "+", "+", "+", " " >>, << "@@" >> >>
  \o [ k \in 1..Len(a) |-> << "-" >> \o a[k] ]
  \o [ k \in 1..Len(b) |-> << "+" >> \o b[k] ]

\* list(difflib.unified_diff(a, b, lineterm='', n=3)): nothing when the lists
\* are equal, else '--- ', '+++ ', the hunk header and the lines.
unified_diff(a, b) ==
  IF a = b THEN << >>
  ELSE << << "-", "-", "-", " " >>, << "+", "+", "+", " " >>, << "@@" >> >>
       \o DiffBody(a, b, 0, Len(a), 0, Len(b))

(***************************************************************************)
(* The pattern-learning engine (learning_system.py).                      *)
(***************************************************************************)
\* hashlib.md5(text.encode()).hexdigest()[:10], kept as the text it digests
_calculate_hash(text) == [ md5_10 |-> text ]

RECURSIVE SelectSeq2(_, _)
\* [c[1] for c in changes if c[0] == kind]
SelectSeq2(changes, kind) ==
  IF Len(changes) = 0 THEN << >>
  ELSE (IF Head(changes)[1] = kind THEN << Head(changes)[2] >> ELSE << >>)
       \o SelectSeq2(Tail(changes), kind)

RECURSIVE ChangesOf(_)
\* the loop of extract_patterns over the diff
ChangesOf(diff) ==
  IF Len(diff) = 0 THEN << >>
  ELSE LET line == Head(diff)
       IN  (IF StartsWith(line, << "-", " " >>) /\ ~StartsWith(line, << "-", "-", "-" >>)
              THEN << << "remove", DropFirst(line, 2) >> >>
            ELSE IF StartsWith(line, << "+", " " >>) /\ ~StartsWith(line, << "+", "+", "+" >>)
              THEN << << "add", DropFirst(line, 2) >> >>
            ELSE << >>)
           \o ChangesOf(Tail(diff))

PatternOf(type, lines) ==
  [ type |-> type, examples |-> TakeFirst(lines, 3), count |-> Len(lines),
    hash |-> _calculate_hash(Join(TakeFirst(lines, 2), << NL >>)) ]

\* LearningSystem.extract_patterns(original, revised)
extract_patterns(original, revised) ==
  LET original_lines == Split(original, << NL >>)
      revised_lines  == Split(revised, << NL >>)
      diff      == unified_diff(original_lines, revised_lines)
      changes   == ChangesOf(diff)
      removals  == SelectSeq2(changes, "remove")
      additions == SelectSeq2(changes, "add")
  IN  (IF Len(removals) > 0 THEN << PatternOf("content_removed", removals) >> ELSE << >>)
      \o (IF Len(additions) > 0 THEN << PatternOf("content_added", additions) >> ELSE << >>)

(***************************************************************************)
(* Values of the ledger.  A column that may be NULL holds << >> for NULL   *)
(* and << v >> for the value v.                                            *)
(***************************************************************************)
Null == << >>
Some(v) == << v >>
IsNull(o) == Len(o) = 0
Val(o) == o[1]

Digits == << "0", "1", "2", "3", "4", "5", "6", "7", "8", "9" >>

\* str(n) for the ids of a run, all below 10
Str(n) == << Digits[n + 1] >>

\* datetime.now().strftime("%Y%m%d_%H%M%S") at second t of the run
Timestamp(t) ==
  << "2", "0", "2", "4", "0", "1", "0", "1", "_", "1", "2", "0", "0", "0" >> \o Str(t)

UpperCase == << "A", "B", "C", "D", "E", "F", "G", "H", "I", "J", "K", "L", "M",
                "N", "O", "P", "Q", "R", "S", "T", "U", "V", "W", "X", "Y", "Z" >>
LowerCase == << "a", "b", "c", "d", "e", "f", "g", "h", "i", "j", "k", "l", "m",
                "n", "o", "p", "q", "r", "s", "t", "u", "v", "w", "x", "y", "z" >>

\* SQLite's LIKE compares ASCII letters without their case
UpperSet == { UpperCase[i] : i \in 1..26 }

FoldMap == [ c \in UpperSet |-> LowerCase[CHOOSE i \in 1..26 : UpperCase[i] = c] ]

Fold(c) == IF c \in UpperSet THEN FoldMap[c] ELSE c

\* value LIKE '%' || p || '%' of SQLite, for a p with no '%' in it: p
\* occurs in the value, where a '_' of p stands for any one character.
\* NULL is LIKE nothing.
Like(value, p) ==
  /\ ~IsNull(value)
  /\ \E off \in 0..(Len(Val(value)) - Len(p)) :
       \A k \in 1..Len(p) :
         \/ p[k] = "_"
         \/ p[k] = Val(value)[off + k]
         \/ Fold(p[k]) = Fold(Val(value)[off + k])

(***************************************************************************)
(* The ledger (activity_tracker.py): each table is the sequence of its     *)
(* rows, row i having id i (AUTOINCREMENT, and no row is ever deleted).    *)
(***************************************************************************)
\* a log_activity that enters the row as already generated
LogActivityAsGenerated(acts, activity_type, source, details, now) ==
  Append(acts, [ id |-> Len(acts) + 1, timestamp |-> now, activity_type |-> activity_type,
                 source |-> source, details |-> details, ai_tokens_used |-> 0,
                 ai_cost |-> 0, human_time_seconds |-> 0, status |-> "generated" ])

\* ActivityTracker.log_activity: the table with the new row, status 'pending'
log_activity(acts, activity_type, source, details, now) ==
  Append(acts, [ id |-> Len(acts) + 1, timestamp |-> now, activity_type |-> activity_type,
                 source |-> source, details |-> details, ai_tokens_used |-> 0,
                 ai_cost |-> 0, human_time_seconds |-> 0, status |-> "pending" ])

\* UPDATE activities SET ai_tokens_used = ?, ai_cost = ?, status = 'generated' WHERE id = ?
SetActivityCost(acts, activity_id, ai_tokens, ai_cost) ==
  [ i \in 1..Len(acts) |->
      IF acts[i].id = activity_id
      THEN [ acts[i] EXCEPT !.ai_tokens_used = ai_tokens, !.ai_cost = ai_cost,
                            !.status = "generated" ]
      ELSE acts[i] ]

\* ActivityTracker.update_activity_cost
update_activity_cost(acts, activity_id, ai_tokens, ai_cost) ==
  SetActivityCost(acts, activity_id, ai_tokens, ai_cost)

\* ActivityTracker.complete_activity, and the UPDATE of submit_review:
\* UPDATE activities SET human_time_seconds = ?, status = 'completed' WHERE id = ?
complete_activity(acts, activity_id, human_time_seconds) ==
  [ i \in 1..Len(acts) |->
      IF acts[i].id = activity_id
      THEN [ acts[i] EXCEPT !.human_time_seconds = human_time_seconds,
                            !.status = "completed" ]
      ELSE acts[i] ]

\* ActivityTracker.save_document: the table with the new row
save_document(docs, activity_id, doc_type, draft_content, filename, now) ==
  Append(docs, [ id |-> Len(docs) + 1, activity_id |-> activity_id, doc_type |-> doc_type,
                 draft_content |-> draft_content, final_content |-> Null,
                 filename |-> Some(filename), review_filepath |-> Null,
                 generated_at |-> now, reviewed_at |-> Null,
                 review_time_seconds |-> Null, quality_score |-> Null ])

\* ActivityTracker.update_document_review_path
update_document_review_path(docs, doc_id, review_filepath) ==
  [ i \in 1..Len(docs) |->
      IF docs[i].id = doc_id
      THEN [ docs[i] EXCEPT !.review_filepath = Some(review_filepath) ]
      ELSE docs[i] ]

\* an update_document that keeps the final_content of a document that has one
UpdateDocumentKeepingFirst(docs, doc_id, final_content, review_time_seconds, quality_score, now) ==
  [ i \in 1..Len(docs) |->
      IF docs[i].id = doc_id /\ IsNull(docs[i].final_content)
      THEN [ docs[i] EXCEPT !.final_content = Some(final_content),
                            !.reviewed_at = Some(now),
                            !.review_time_seconds = Some(review_time_seconds),
                            !.quality_score = Some(quality_score) ]
      ELSE docs[i] ]

\* ActivityTracker.update_document, and the UPDATE of submit_review: UPDATE
\* documents SET final_content = ?, reviewed_at = now, review_time_seconds = ?,
\* quality_score = ? WHERE id = ?  (quality_score in hundredths)
update_document(docs, doc_id, final_content, review_time_seconds, quality_score, now) ==
  [ i \in 1..Len(docs) |->
      IF docs[i].id = doc_id
      THEN [ docs[i] EXCEPT !.final_content = Some(final_content),
                            !.reviewed_at = Some(now),
                            !.review_time_seconds = Some(review_time_seconds),
                            !.quality_score = Some(quality_score) ]
      ELSE docs[i] ]

(***************************************************************************)
(* The document generator (document_generator.py).                         *)
(***************************************************************************)
\* pricing['gpt-3.5-turbo'], the default model: 0.002 dollars per 1K tokens
PricePer1k == 2000

\* simulated_tokens of _generate_simulated
SimulatedTokens == 800

\* EnhancedDocumentGenerator.calculate_cost, in micro-dollars
calculate_cost(tokens) == (tokens * PricePer1k) \div 1000

\* s.replace(old, new) for single characters
ReplaceChar(s, old, new) == [ i \in 1..Len(s) |-> IF s[i] = old THEN new ELSE s[i] ]

UnfoldMap == [ c \in { LowerCase[i] : i \in 1..26 } |->
                 UpperCase[CHOOSE i \in 1..26 : LowerCase[i] = c] ]

IsLetter(c) == c \in DOMAIN FoldMap \/ c \in DOMAIN UnfoldMap

\* s.title(): a letter that follows no letter is made upper case, every
\* other letter lower case
Title(s) ==
  [ i \in 1..Len(s) |->
      IF i = 1 \/ ~IsLetter(s[i - 1])
      THEN (IF s[i] \in DOMAIN UnfoldMap THEN UnfoldMap[s[i]] ELSE s[i])
      ELSE Fold(s[i]) ]

\* a line of the example list of _generate_simulated: "- " and its words
ListLine(words) == << "-", " ", words, NL >>

\* The text of _generate_simulated, the literals of its lines kept as chunks
\* (the request's context and the minute of the call among them).
SimulatedContent(doc_type) ==
  << "#", " " >> \o Title(ReplaceChar(doc_type, "_", " "))
  \o << NL, " ", " ", " ", " ", " ", " ", " ", " ", NL,
        "## Based on: {context}", NL, NL, "### Document Type: " >> \o doc_type
  \o << NL, "### Generated: {now}",
        NL, "### Status: Simulated (OpenAI not configured)", NL, NL,
        "This is a simulated document. To get AI-generated content:", NL, NL,
        "1. Get an OpenAI API key from https://platform.openai.com/api-keys", NL,
        "2. Add to .env file: OPENAI_API_KEY=sk-your-key-here", NL,
        "3. Restart the API server", NL, NL,
        "**Example Content Structure:**", NL >>
  \o ListLine("Overview") \o ListLine("Technical specifications")
  \o ListLine("Requirements") \o ListLine("Integration points")
  \o ListLine("Security considerations") \o ListLine("Licensing recommendations")
  \o << NL, "*Enable OpenAI for real AI-generated documentation.*", NL >>

\* A mutant of _generate_simulated: the fallback reports the provider of a
\* real generation.
GenerateSimulatedAsOpenai(doc_type) ==
  [ content |-> SimulatedContent(doc_type), tokens |-> SimulatedTokens,
    cost |-> calculate_cost(SimulatedTokens), model |-> "simulated",
    provider |-> "openai", success |-> FALSE ]

\* EnhancedDocumentGenerator._generate_simulated
_generate_simulated(doc_type) ==
  [ content |-> SimulatedContent(doc_type), tokens |-> SimulatedTokens,
    cost |-> calculate_cost(SimulatedTokens), model |-> "simulated",
    provider |-> "simulated", success |-> FALSE ]

\* EnhancedDocumentGenerator.generate_document.  upstream is what the
\* text-generation call does: [ok |-> TRUE, content, tokens] when it answers,
\* [ok |-> FALSE] when it raises or when there is no client (no API key).
generate_document(doc_type, upstream) ==
  IF upstream.ok
  THEN [ content |-> upstream.content, tokens |-> upstream.tokens,
         cost |-> calculate_cost(upstream.tokens), model |-> "gpt-3.5-turbo",
         provider |-> "openai", success |-> TRUE ]
  ELSE _generate_simulated(doc_type)

\* a log_cost_to_db that keeps one record per activity: the activity's earlier
\* record is replaced
LogCostReplacingRecord(acts, costs, activity_id, result) ==
  LET kept == SelectSeq(costs, LAMBDA r : r.activity_id # activity_id)
  IN  [ ai_costs |-> Append(kept, [ id |-> Len(costs) + 1, provider |-> result.provider,
                                     model |-> result.model, tokens_used |-> result.tokens,
                                     cost |-> result.cost, activity_id |-> activity_id ]),
        activities |-> SetActivityCost(acts, activity_id, result.tokens, result.cost) ]

\* EnhancedDocumentGenerator.log_cost_to_db: one INSERT INTO ai_costs and one
\* UPDATE of the activity, committed together.
log_cost_to_db(acts, costs, activity_id, result) ==
  [ ai_costs |-> Append(costs, [ id |-> Len(costs) + 1, provider |-> result.provider,
                                  model |-> result.model, tokens_used |-> result.tokens,
                                  cost |-> result.cost, activity_id |-> activity_id ]),
    activities |-> SetActivityCost(acts, activity_id, result.tokens, result.cost) ]

(***************************************************************************)
(* The review workflow on the file system (review_workflow.py).  files     *)
(* maps the path of a text file to its text, meta the path of a metadata   *)
(* sidecar (.json) to the record it holds.                                 *)
(***************************************************************************)
Dashes == << "-", "-", "-" >>
ReviewDir == << "d", "o", "c", "s", "/", "r", "e", "v", "i", "e", "w", "/" >>
ApprovedDir == << "d", "o", "c", "s", "/", "a", "p", "p", "r", "o", "v", "e", "d", "/" >>
LicensingDir == << "d", "o", "c", "s", "/", "l", "i", "c", "e", "n", "s", "i", "n", "g",
                   "_", "r", "e", "a", "d", "y", "/" >>
ReviewPrefix == << "r", "e", "v", "i", "e", "w", "_" >>
ReviewedPrefix == << "r", "e", "v", "i", "e", "w", "e", "d", "_" >>
LicensingPrefix == << "l", "i", "c", "e", "n", "s", "i", "n", "g", "_" >>
MdSuffix == << ".", "m", "d" >>
JsonSuffix == << ".", "j", "s", "o", "n" >>

\* the index of the last c in s, 0 when there is none
LastIndexOf(s, c) ==
  LET at == { i \in 1..Len(s) : s[i] = c }
  IN  IF at = {} THEN 0 ELSE SetMax(at)

\* os.path.basename(path), Path(path).name
Basename(path) == DropFirst(path, LastIndexOf(path, "/"))

\* Path(path).with_suffix('.json'): the suffix starts at the last '.' of the
\* name, unless that is its first character
WithSuffixJson(path) ==
  LET name == Basename(path)
      dot  == LastIndexOf(name, ".")
      stem == IF dot > 1 THEN TakeFirst(name, dot - 1) ELSE name
  IN  TakeFirst(path, Len(path) - Len(name)) \o stem \o JsonSuffix

\* os.path.exists(path)
Exists(fls, mta, path) == path \in DOMAIN fls \/ path \in DOMAIN mta

\* open(path, 'w').write(text)
WriteFile(fls, path, text) == (path :> text) @@ fls

\* the text save_for_review writes: two header blocks, a blank line, the content
ReviewFileTextOf(id_text, doc_type, metadata, content) ==
  Dashes \o << NL, "# DOCUMENT FOR REVIEW", NL, "# ID: " >> \o id_text
  \o << NL, "# Type: " >> \o doc_type
  \o << NL, "# Generated: ", ToString(metadata.generated_at),
        NL, "# Cost: $", ToString(metadata.cost),
        NL, "# Tokens: ", ToString(metadata.tokens),
        NL, "# Model: ", metadata.model, NL >>
  \o Dashes \o << NL, "# REVIEW INSTRUCTIONS", NL, "1. Check technical accuracy",
        NL, "2. Verify completeness for licensing",
        NL, "3. Mark sections needing clarification with [REVIEW]",
        NL, "4. Add licensing-specific details",
        NL, "5. Update any placeholder content", NL >>
  \o Dashes \o << NL, NL >> \o content \o << NL >>

\* the review file of a document whose id formats as id_text
ReviewFileText(doc_id, doc_type, metadata, content) ==
  ReviewFileTextOf(Str(doc_id), doc_type, metadata, content)

\* ReviewWorkflow.save_for_review for a doc_id that formats as id_text: the
\* review file and its sidecar
SaveForReviewOf(fls, mta, id_text, content, doc_type, metadata, now) ==
  LET filename == doc_type \o << "_" >> \o id_text \o << "_" >> \o Timestamp(now) \o MdSuffix
      filepath == ReviewDir \o filename
  IN  [ path  |-> filepath,
        files |-> WriteFile(fls, filepath, ReviewFileTextOf(id_text, doc_type, metadata, content)),
        meta  |-> (WithSuffixJson(filepath) :>
                     [ metadata EXCEPT !.filepath = Some(filepath),
                                       !.status = "pending_review",
                                       !.saved_at = Some(now) ]) @@ mta ]

\* ReviewWorkflow.save_for_review of a saved document
save_for_review(fls, mta, doc_id, content, doc_type, metadata, now) ==
  SaveForReviewOf(fls, mta, Str(doc_id), content, doc_type, metadata, now)

\* the text submit_review writes to the approved folder
ApprovedFileText(metadata, reviewer_name, changes_summary, reviewed_content, now) ==
  Dashes \o << NL, "# REVIEWED DOCUMENT", NL, "# Original ID: " >> \o Str(metadata.doc_id)
  \o << NL, "# Type: " >> \o metadata.doc_type
  \o << NL, "# Generated: ", ToString(metadata.generated_at),
        NL, "# Reviewed: ", ToString(now),
        NL, "# Reviewer: ", reviewer_name,
        NL, "# Changes: ", changes_summary, NL >>
  \o Dashes \o << NL >> \o reviewed_content \o << NL >>

\* extract_body of _extract_learning: what follows the last '---' when the
\* text has two of them or more, else the whole text
extract_body(content) ==
  IF Contains(content, Dashes)
  THEN LET parts == Split(content, Dashes)
       IN  IF Len(parts) > 2 THEN Strip(parts[Len(parts)]) ELSE content
  ELSE content

\* a save_feedback that keeps one row per pattern type and document: the
\* earlier rows of the types it saves are replaced
SaveFeedbackReplacing(patterns_table, doc_id, original, revised, doc_type, now) ==
  LET patterns == extract_patterns(original, revised)
      kept     == SelectSeq(patterns_table,
                            LAMBDA r : \/ r.learned_from_doc_id # doc_id
                                       \/ \A k \in 1..Len(patterns) :
                                            patterns[k].type # r.pattern_type)
  IN  kept \o
        [ k \in 1..Len(patterns) |->
            [ id |-> Len(patterns_table) + k, pattern_type |-> patterns[k].type,
              context |-> << "D", "o", "c", " ", "t", "y", "p", "e", ":", " " >> \o doc_type,
              correction |-> patterns[k], learned_from_doc_id |-> doc_id,
              created_at |-> now, applied_count |-> 0 ] ]

\* LearningSystem.save_feedback: one row per extracted pattern
save_feedback(patterns_table, doc_id, original, revised, doc_type, now) ==
  LET patterns == extract_patterns(original, revised)
  IN  patterns_table \o
        [ k \in 1..Len(patterns) |->
            [ id |-> Len(patterns_table) + k, pattern_type |-> patterns[k].type,
              context |-> << "D", "o", "c", " ", "t", "y", "p", "e", ":", " " >> \o doc_type,
              correction |-> patterns[k], learned_from_doc_id |-> doc_id,
              created_at |-> now, applied_count |-> 0 ] ]

ApplyLimit == 10

\* the rows apply_learnings reads: SELECT ... WHERE context LIKE ? ORDER BY
\* applied_count DESC LIMIT 10 (rows of equal count in the order of their ids)
SelectedPatterns(patterns_table, content_type) ==
  LET matching == SelectSeq(patterns_table, LAMBDA r : Like(Some(r.context), content_type))
      ordered  == SortSeq(matching,
                          LAMBDA x, y : \/ x.applied_count > y.applied_count
                                        \/ x.applied_count = y.applied_count /\ x.id < y.id)
  IN  TakeFirst(ordered, ApplyLimit)

\* how many times the loop of apply_learnings marks a row it read as applied:
\* once for each example of a content_removed pattern that occurs in the
\* content, once for a content_added pattern whose first example is not
\* empty and does not occur in it
TimesApplied(row, content) ==
  IF row.pattern_type = "content_removed"
  THEN Cardinality({ k \in 1..Len(row.correction.examples) :
                       Contains(content, row.correction.examples[k]) })
  ELSE IF row.pattern_type = "content_added"
  THEN (IF Head(row.correction.examples) # << >>
           /\ ~Contains(content, Head(row.correction.examples))
        THEN 1 ELSE 0)
  ELSE 0

\* UPDATEs that set applied_count to the marks of this call instead of adding
\* them to it
MarkAppliedResetting(patterns_table, selected, content) ==
  [ i \in 1..Len(patterns_table) |->
      [ patterns_table[i] EXCEPT !.applied_count =
          SumSeq([ k \in 1..Len(selected) |->
                     IF selected[k].correction = patterns_table[i].correction
                     THEN TimesApplied(selected[k], content) ELSE 0 ]) ] ]

\* the table after the UPDATEs of apply_learnings: each marks every row that
\* holds the same correction
MarkApplied(patterns_table, selected, content) ==
  [ i \in 1..Len(patterns_table) |->
      [ patterns_table[i] EXCEPT !.applied_count =
          @ + SumSeq([ k \in 1..Len(selected) |->
                         IF selected[k].correction = patterns_table[i].correction
                         THEN TimesApplied(selected[k], content) ELSE 0 ]) ] ]

\* an apply_learnings that takes the examples of the removal patterns out of
\* the content it returns
RECURSIVE WithoutExamples(_, _)
WithoutExamples(content, examples) ==
  IF Len(examples) = 0 THEN content
  ELSE WithoutExamples(IF Head(examples) # << >> THEN Remove(content, Head(examples))
                       ELSE content,
                       Tail(examples))

ApplyLearningsRemoving(patterns_table, new_content, content_type) ==
  LET selected == SelectedPatterns(patterns_table, content_type)
      removed  == SelectSeq(selected, LAMBDA r : r.pattern_type = "content_removed")
  IN  [ content |-> IF Len(removed) = 0 THEN new_content
                    ELSE WithoutExamples(new_content, Head(removed).correction.examples),
        learning_patterns |-> MarkApplied(patterns_table, selected, new_content) ]

\* LearningSystem.apply_learnings(new_content, content_type): the content it
\* returns and the table it leaves
apply_learnings(patterns_table, new_content, content_type) ==
  LET selected         == SelectedPatterns(patterns_table, content_type)
      improved_content == new_content
  IN  [ content |-> improved_content,
        learning_patterns |-> MarkApplied(patterns_table, selected, improved_content) ]

SecondsPerDay == 86400

\* column >= datetime('now', '-<days> days')
InWindow(at, now, days) == at >= now - days * SecondsPerDay

\* AVG(review_time_seconds)/60 over the rows, NULLs left out, as the fraction
\* num/den; `or 0` when no row has a time
AvgReviewMinutes(rows) ==
  LET timed == SelectSeq(rows, LAMBDA d : ~IsNull(d.review_time_seconds))
  IN  IF Len(timed) = 0 THEN [ num |-> 0, den |-> 1 ]
      ELSE [ num |-> SumSeq([ k \in 1..Len(timed) |-> Val(timed[k].review_time_seconds) ]),
             den |-> 60 * Len(timed) ]

\* the first insight of generate_insights: none when no document was reviewed
\* in the window
ReviewTimeInsight(docs, days, now) ==
  LET reviewed == SelectSeq(docs, LAMBDA d : /\ ~IsNull(d.reviewed_at)
                                            /\ InWindow(Val(d.reviewed_at), now, days))
      avg_minutes == AvgReviewMinutes(reviewed)
  IN  IF Len(reviewed) > 0
      THEN << [ metric_name |-> << "avg_review_time_minutes" >>,
                metric_value |-> avg_minutes,
                recommendation |-> << "Average review time: ", avg_minutes,
                                      " minutes. Target: under 5 minutes." >> ] >>
      ELSE << >>

\* COUNT(*) of the pattern type among the patterns created in the window
Frequency(patterns_table, type, days, now) ==
  Len(SelectSeq(patterns_table,
                LAMBDA r : r.pattern_type = type /\ InWindow(r.created_at, now, days)))

\* the orders in which GROUP BY pattern_type ORDER BY frequency DESC may give
\* the types: any order that has no smaller frequency before a larger one
FrequencyOrders(patterns_table, days, now) ==
  LET types == { patterns_table[i].pattern_type :
                   i \in { j \in 1..Len(patterns_table) :
                             InWindow(patterns_table[j].created_at, now, days) } }
      n     == Cardinality(types)
  IN  { order \in [ 1..n -> types ] :
          /\ \A i, j \in 1..n : i # j => order[i] # order[j]
          /\ \A i, j \in 1..n :
               i < j => Frequency(patterns_table, order[i], days, now)
                          >= Frequency(patterns_table, order[j], days, now) }

\* the pattern types with "removed" in their name
RemovedTypes == { "content_removed" }

\* a pattern insight from the second occurrence on
PatternInsightFromTwo(patterns_table, type, days, now) ==
  LET frequency == Frequency(patterns_table, type, days, now)
      action    == IF type \in RemovedTypes THEN "Reduce" ELSE "Include"
  IN  IF frequency >= 2
      THEN << [ metric_name |-> << "pattern_", type >>, metric_value |-> frequency,
                recommendation |-> << action, " content matching pattern: ", type,
                                      " (occurred ", frequency, " times)" >> ] >>
      ELSE << >>

\* the insight for a pattern type: only when it occurred more than twice
PatternInsight(patterns_table, type, days, now) ==
  LET frequency == Frequency(patterns_table, type, days, now)
      action    == IF type \in RemovedTypes THEN "Reduce" ELSE "Include"
  IN  IF frequency > 2
      THEN << [ metric_name |-> << "pattern_", type >>, metric_value |-> frequency,
                recommendation |-> << action, " content matching pattern: ", type,
                                      " (occurred ", frequency, " times)" >> ] >>
      ELSE << >>

RECURSIVE PatternInsights(_, _, _, _)
PatternInsights(patterns_table, order, days, now) ==
  IF Len(order) = 0 THEN << >>
  ELSE PatternInsight(patterns_table, Head(order), days, now)
       \o PatternInsights(patterns_table, Tail(order), days, now)

\* the rows the INSERTs of generate_insights add after those of the table
InsightRows(insights_table, found, now) ==
  [ k \in 1..Len(found) |->
      [ id |-> Len(insights_table) + k, generated_at |-> now,
        metric_name |-> found[k].metric_name, metric_value |-> found[k].metric_value,
        recommendation |-> found[k].recommendation ] ]

\* a generate_insights that keeps one row per metric: the earlier rows of a
\* metric it reports again are replaced
GenerateInsightsReplacing(docs, patterns_table, insights_table, days, now) ==
  { LET found == ReviewTimeInsight(docs, days, now)
                 \o PatternInsights(patterns_table, order, days, now)
        kept  == SelectSeq(insights_table,
                           LAMBDA r : \A k \in 1..Len(found) :
                                        found[k].metric_name # r.metric_name)
    IN  kept \o InsightRows(insights_table, found, now) :
    order \in FrequencyOrders(patterns_table, days, now) }

\* LearningSystem.generate_insights(days): the tables of insights it may
\* leave, one for each order in which the pattern types may be read
generate_insights(docs, patterns_table, insights_table, days, now) ==
  { LET found == ReviewTimeInsight(docs, days, now)
                 \o PatternInsights(patterns_table, order, days, now)
    IN  insights_table \o InsightRows(insights_table, found, now) :
    order \in FrequencyOrders(patterns_table, days, now) }

\* ReviewWorkflow._extract_learning: both files are read back from disk
_extract_learning(fls, patterns_table, original_path, reviewed_path, metadata, now) ==
  save_feedback(patterns_table, metadata.doc_id,
                extract_body(fls[original_path]), extract_body(fls[reviewed_path]),
                metadata.doc_type, now)

\* ReviewWorkflow.submit_review.  It raises (ok = FALSE, nothing written)
\* when the file has no metadata sidecar; else it writes the approved file,
\* updates the sidecar and extracts the learning.
workflow_submit_review(fls, mta, patterns_table, filepath, reviewed_content, changes_summary, reviewer_name, now) ==
  LET metadata_file == WithSuffixJson(filepath)
  IN  IF metadata_file \notin DOMAIN mta
      THEN [ ok |-> FALSE, reviewed_path |-> << >>, files |-> fls, meta |-> mta,
             learning_patterns |-> patterns_table ]
      ELSE LET reviewed_path == ApprovedDir \o ReviewedPrefix \o Basename(filepath)
               metadata == [ mta[metadata_file] EXCEPT !.reviewed_at = Some(now),
                                                       !.reviewer = Some(reviewer_name),
                                                       !.changes_summary = Some(changes_summary),
                                                       !.status = "reviewed",
                                                       !.reviewed_filepath = Some(reviewed_path) ]
               fls1 == WriteFile(fls, reviewed_path,
                         ApprovedFileText(metadata, reviewer_name, changes_summary,
                                          reviewed_content, now))
           IN  [ ok |-> TRUE, reviewed_path |-> reviewed_path, files |-> fls1,
                 meta |-> (metadata_file :> metadata) @@ mta,
                 learning_patterns |->
                   _extract_learning(fls1, patterns_table, filepath, reviewed_path, metadata, now) ]

RECURSIVE CleanLines(_, _)
\* the loop of prepare_for_licensing over the lines: the first '---' line
\* ends the header, every line before it is dropped, every line after it kept
CleanLines(lines, in_header) ==
  IF Len(lines) = 0 THEN << >>
  ELSE IF Head(lines) = Dashes /\ in_header THEN CleanLines(Tail(lines), FALSE)
  ELSE IF in_header THEN CleanLines(Tail(lines), TRUE)
  ELSE << Head(lines) >> \o CleanLines(Tail(lines), FALSE)

\* "Remove metadata headers if present" of prepare_for_licensing
RemoveMetadataHeader(content) ==
  IF StartsWith(content, Dashes)
  THEN Strip(Join(CleanLines(Split(content, << NL >>), TRUE), << NL >>))
  ELSE content

\* the text prepare_for_licensing writes
LicensingFileText(content, today) ==
  << "# SOFTWARE DOCUMENTATION FOR LICENSING", NL, "# Document Version: 1.0", NL,
     "# Preparation Date: ", ToString(today), NL,
     "# Confidential - For Licensee Review Only", NL, NL >>
  \o content \o << NL, NL >> \o Dashes
  \o << NL, "## LICENSING ACKNOWLEDGMENT", NL, NL,
        "This document is part of the software licensing package. ", NL,
        "All technical specifications are accurate as of the preparation date.", NL, NL,
        "**Contact:** Licensing Department", NL,
        "**Email:** licensing@yourcompany.com", NL,
        "**Effective Date:** ", ToString(today), NL >>

\* ReviewWorkflow.prepare_for_licensing.  It raises (ok = FALSE) when the
\* reviewed file cannot be opened.
prepare_for_licensing(fls, reviewed_filepath, now) ==
  IF reviewed_filepath \notin DOMAIN fls
  THEN [ ok |-> FALSE, path |-> << >>, files |-> fls ]
  ELSE LET licensing_path == LicensingDir \o LicensingPrefix \o Basename(reviewed_filepath)
       IN  [ ok |-> TRUE, path |-> licensing_path,
             files |-> WriteFile(fls, licensing_path,
                         LicensingFileText(RemoveMetadataHeader(fls[reviewed_filepath]), now)) ]

\* licensing_folder.glob("licensing_*.md"): the files of that name directly
\* in the licensing folder
LicensingReadyFiles(fls) ==
  { f \in DOMAIN fls :
      /\ f = LicensingDir \o Basename(f)
      /\ StartsWith(Basename(f), LicensingPrefix)
      /\ Len(Basename(f)) >= Len(LicensingPrefix) + Len(MdSuffix)
      /\ MatchAt(f, MdSuffix, Len(f) - Len(MdSuffix) + 1) }

\* the README of a package
PackageReadme(product_name, version, package_contents, today) ==
  << "# SOFTWARE LICENSING DOCUMENTATION PACKAGE", NL, NL, "## Product: " >> \o product_name
  \o << NL, "## Version: " >> \o version
  \o << NL, "## Package Date: ", ToString(today), NL, NL, "### INCLUDED DOCUMENTS:", NL >>
  \o Join([ i \in 1..Len(package_contents) |-> << "-", " " >> \o package_contents[i] ], << NL >>)
  \o << NL, NL, "### PURPOSE:", NL, "### CONFIDENTIALITY:", NL, "### CONTACT:", NL >>

RECURSIVE CopyInto(_, _, _)
\* the loop of generate_licensing_package: each file copied into the folder
CopyInto(fls, package_folder, licensing_files) ==
  IF Len(licensing_files) = 0 THEN fls
  ELSE CopyInto(WriteFile(fls, package_folder \o Basename(Head(licensing_files)),
                          fls[Head(licensing_files)]),
                package_folder, Tail(licensing_files))

\* ReviewWorkflow.generate_licensing_package: the outcomes it can have, one
\* for each order in which glob may list the files
generate_licensing_package(fls, mta, product_name, version, now) ==
  LET package_folder == LicensingDir \o product_name \o << "_", "v" >> \o version \o << "/" >>
      ready  == LicensingReadyFiles(fls)
      orders == { o \in [ 1..Cardinality(ready) -> ready ] :
                    \A i, j \in 1..Cardinality(ready) : i # j => o[i] # o[j] }
  IN  { LET package_contents == [ i \in 1..Len(licensing_files) |->
                                    Basename(licensing_files[i]) ]
        IN  [ path  |-> package_folder,
              files |-> WriteFile(CopyInto(fls, package_folder, licensing_files),
                                  package_folder \o << "R", "E", "A", "D", "M", "E" >> \o MdSuffix,
                                  PackageReadme(product_name, version, package_contents, now)),
              meta  |-> ((package_folder \o << "m", "a", "n", "i", "f", "e", "s", "t" >>
                            \o JsonSuffix)
                         :> [ product_name |-> product_name, version |-> version,
                              generated_date |-> now, documents |-> package_contents,
                              total_documents |-> Len(package_contents) ]) @@ mta ]
        : licensing_files \in orders }

(***************************************************************************)
(* The API server (api_server.py).                                         *)
(***************************************************************************)
MaxDocs == 1
MaxUserFiles == 1

\* datetime.now() of the requests: those of a run fall within one second
Now == 0

\* data.get('doc_type', 'technical_spec') of the requests
DocTypes ==
  { << "t", "e", "c", "h", "n", "i", "c", "a", "l", "_", "s", "p", "e", "c" >> }

\* what the text-generation call answers
GeneratedContents == { << "a", NL, " ", "b" >> }

\* what the text-generation call does, see generate_document
UpstreamChoices ==
  { [ ok |-> FALSE ] }
  \cup { [ ok |-> TRUE, content |-> c, tokens |-> n ] :
           c \in GeneratedContents, n \in TokenChoices }

\* what it does in the runs of the review lifecycle
LifecycleUpstreams == { u \in UpstreamChoices : u.ok => u.tokens = SetMin(TokenChoices) }

\* POST /generate with a 'context': the handler from log_activity to the answer
GenerateRequest(doc_type, licensing_focus, upstream) ==
  /\ LET activity_id == Len(activities) + 1
         acts1  == log_activity(activities, "documentation_generation", "api",
                                [ doc_type |-> doc_type, licensing_focus |-> licensing_focus ],
                                Now)
         result == generate_document(doc_type, upstream)
         logged == log_cost_to_db(acts1, ai_costs, activity_id, result)
         filename == doc_type \o << "_" >> \o Str(activity_id) \o << "_" >>
                     \o Timestamp(Now) \o MdSuffix
         doc_id == Len(documents) + 1
         docs1  == save_document(documents, activity_id, doc_type, result.content,
                                 filename, Now)
         metadata == [ doc_id |-> doc_id, doc_type |-> doc_type, filename |-> filename,
                       cost |-> result.cost, tokens |-> result.tokens,
                       model |-> result.model, generated_at |-> Now,
                       activity_id |-> activity_id, filepath |-> Null, status |-> "new",
                       saved_at |-> Null, reviewed_at |-> Null, reviewer |-> Null,
                       changes_summary |-> Null, reviewed_filepath |-> Null ]
         saved  == save_for_review(files, meta, doc_id, result.content, doc_type,
                                   metadata, Now)
     IN  /\ activities' = logged.activities
         /\ ai_costs' = logged.ai_costs
         /\ IF licensing_focus
            THEN /\ documents' = update_document_review_path(docs1, doc_id, saved.path)
                 /\ files' = saved.files
                 /\ meta' = saved.meta
            ELSE /\ documents' = docs1
                 /\ UNCHANGED <<files, meta>>
         /\ call' = [ op |-> "generate", status |-> 200, upstream_ok |-> upstream.ok,
                      activity_id |-> activity_id, document_id |-> doc_id,
                      filename |-> filename, provider |-> result.provider,
                      needs_review |-> licensing_focus,
                      review_path |-> IF licensing_focus THEN Some(saved.path) ELSE Null ]
  /\ UNCHANGED <<learning_patterns, insights, config>>

\* POST /generate with a 'context', while the run has room for a document
Generate(doc_type, licensing_focus, upstream) ==
  /\ Len(documents) < MaxDocs
  /\ GenerateRequest(doc_type, licensing_focus, upstream)

\* a refused request that resets the budget configuration
GenerateBadRequestResettingConfig ==
  /\ call' = [ op |-> "generate", status |-> 400 ]
  /\ config' = [ exists |-> TRUE, force_local |-> FALSE ]
  /\ UNCHANGED <<db, fs>>

\* POST /generate without a 'context': 400, nothing is written.
GenerateBadRequest ==
  /\ call' = [ op |-> "generate", status |-> 400 ]
  /\ UNCHANGED <<db, fs, config>>

\* search_filename of submit_review: a leading "review_" is cut, and then a
\* leading "reviewed_" of what is left
SearchFilename(submitted_filename) ==
  LET s1 == IF StartsWith(submitted_filename, ReviewPrefix)
            THEN DropFirst(submitted_filename, 7) ELSE submitted_filename
  IN  IF StartsWith(s1, ReviewedPrefix) THEN DropFirst(s1, 9) ELSE s1

\* search_patterns of submit_review, without the '%' around each
SearchPatterns(submitted_filename) ==
  LET search_filename == SearchFilename(submitted_filename)
  IN  << search_filename, submitted_filename,
         Remove(search_filename, ReviewedPrefix), Remove(search_filename, ReviewPrefix) >>

\* SELECT id ... WHERE filename LIKE ? OR review_filepath LIKE ?
\* ORDER BY id DESC LIMIT 1: the id, 0 for no row
SelectDocument(docs, pattern) ==
  LET ids == { i \in 1..Len(docs) :
                 Like(docs[i].filename, pattern) \/ Like(docs[i].review_filepath, pattern) }
  IN  IF ids = {} THEN 0 ELSE SetMax(ids)

RECURSIVE FirstMatch(_, _, _)
\* the loop over search_patterns from the k-th on: the row of the first
\* pattern that has one, 0 when none has
FirstMatch(docs, patterns, k) ==
  IF k > Len(patterns) THEN 0
  ELSE LET id == SelectDocument(docs, patterns[k])
       IN  IF id # 0 THEN id ELSE FirstMatch(docs, patterns, k + 1)

\* a lookup that falls back to the latest document when no pattern has a row
FindDocumentOrLatest(docs, submitted_filename) ==
  LET id == FirstMatch(docs, SearchPatterns(submitted_filename), 1)
  IN  IF id # 0 THEN id ELSE Len(docs)

\* the document submit_review finds for the name of the submitted file
FindDocument(docs, submitted_filename) ==
  FirstMatch(docs, SearchPatterns(submitted_filename), 1)

\* POST /submit-review with its required fields, for a file that exists;
\* prepare is the request's prepare_for_licensing.  The workflow's
\* submit_review may raise: the handler then falls back to a path under
\* docs/review/ that it does not write.  The document is looked up and
\* updated next, and the licensing copy is made last: when that raises the
\* answer is 500 and the updates stay.  (Each intermediate result is bound
\* once, as the one element of a set.)
SubmitReview(filepath) ==
  /\ Exists(files, meta, filepath)
  /\ filepath \in DOMAIN files
  /\ \E wf \in { workflow_submit_review(files, meta, learning_patterns, filepath,
                                         files[filepath], "summary", "reviewer", Now) },
        doc_id \in { FindDocument(documents, Basename(filepath)) },
        prepare \in BOOLEAN :
       \E reviewed_path \in { IF wf.ok THEN wf.reviewed_path
                               ELSE ReviewDir \o ReviewedPrefix \o Basename(filepath) } :
         \E lic \in { IF prepare THEN prepare_for_licensing(wf.files, reviewed_path, Now)
                       ELSE [ ok |-> TRUE, path |-> << >>, files |-> wf.files ] } :
           /\ learning_patterns' = wf.learning_patterns
           /\ meta' = wf.meta
           /\ IF doc_id # 0
              THEN /\ documents' =
                        update_document_review_path(
                          update_document(documents, doc_id, files[filepath], 300, 80, Now),
                          doc_id, reviewed_path)
                   /\ activities' = complete_activity(activities,
                                                      documents[doc_id].activity_id, 300)
              ELSE UNCHANGED <<documents, activities>>
           /\ files' = lic.files
           /\ call' = [ op |-> "submit_review",
                        status |-> IF lic.ok THEN 200 ELSE 500,
                        filepath |-> filepath, workflow_ok |-> wf.ok,
                        document_id |-> doc_id, database_updated |-> doc_id # 0,
                        reviewed_path |-> reviewed_path,
                        licensing_path |-> IF prepare /\ lic.ok THEN Some(lic.path) ELSE Null ]
  /\ UNCHANGED <<ai_costs, insights, config>>

\* a not-found answer that leaves an approved file behind
SubmitReviewNotFoundWriting(filepath) ==
  /\ ~Exists(files, meta, filepath)
  /\ files' = WriteFile(files, ReviewDir \o ReviewedPrefix \o Basename(filepath), << >>)
  /\ call' = [ op |-> "submit_review", status |-> 404, filepath |-> filepath ]
  /\ UNCHANGED <<db, meta, config>>

\* POST /submit-review for a path that names no file: 404, nothing is written.
SubmitReviewNotFound(filepath) ==
  /\ ~Exists(files, meta, filepath)
  /\ call' = [ op |-> "submit_review", status |-> 404, filepath |-> filepath ]
  /\ UNCHANGED <<db, fs, config>>

(***************************************************************************)
(* What happens around the requests: the reviewer edits a staged file, a   *)
(* user keeps a file of their own, and the ledger's operations are called. *)
(***************************************************************************)
InboxDir == << "i", "n", "b", "o", "x", "/" >>
NotesName == << "n", "o", "t", "e", "s", ".", "m", "d" >>

\* the body a reviewer leaves in a staged file
ReviewedBodies == { << "a", NL, " ", "r" >> }

\* the text of a staged file with the body after its last '---' replaced
WithBody(text, body) ==
  LET parts == Split(text, Dashes)
      head  == Join(SubSeq(parts, 1, Len(parts) - 1), Dashes)
  IN  IF Len(parts) = 1 THEN body \o << NL >>
      ELSE head \o Dashes \o << NL, NL >> \o body \o << NL >>

\* The reviewer edits a staged review file in place.
HumanEdits(path, body) ==
  /\ path \in DOMAIN files
  /\ StartsWith(path, ReviewDir)
  /\ files[path] # WithBody(files[path], body)
  /\ files' = WriteFile(files, path, WithBody(files[path], body))
  /\ call' = [ op |-> "edit", filepath |-> path ]
  /\ UNCHANGED <<db, meta, config>>

\* the names a user gives a file of their own: the filename a /generate
\* response reported, or one no document has
UserFileNames == { Val(documents[i].filename) : i \in 1..Len(documents) } \cup { NotesName }

\* A user saves a text under inbox/, outside the docs folder.
UserSaves(name, body) ==
  /\ Cardinality({ p \in DOMAIN files : StartsWith(p, InboxDir) }) < MaxUserFiles
  /\ InboxDir \o name \notin DOMAIN files
  /\ files' = WriteFile(files, InboxDir \o name, body \o << NL >>)
  /\ call' = [ op |-> "save", filepath |-> InboxDir \o name ]
  /\ UNCHANGED <<db, meta, config>>

\* python review_workflow.py: stages its test document, as document 1, in the
\* review folder; the ledger is not touched
TestContent == << "# Test Document", NL, NL, "This is a test document for review." >>

StageTestDocument ==
  /\ \E saved \in { save_for_review(files, meta, 1, TestContent,
                                      CHOOSE d \in DocTypes : TRUE,
                                      [ doc_id |-> 1, doc_type |-> CHOOSE d \in DocTypes : TRUE,
                                        filename |-> Null, cost |-> 134, tokens |-> 67,
                                        model |-> "gpt-3.5-turbo", generated_at |-> Now,
                                        activity_id |-> Null, filepath |-> Null,
                                        status |-> "new", saved_at |-> Null,
                                        reviewed_at |-> Null, reviewer |-> Null,
                                        changes_summary |-> Null,
                                        reviewed_filepath |-> Null ], Now) } :
       /\ files' = saved.files
       /\ meta' = saved.meta
       /\ call' = [ op |-> "save_for_review", filepath |-> saved.path ]
  /\ UNCHANGED <<db, config>>

\* the files a request submits: a staged review file, or a file of the user
Submittable ==
  { p \in DOMAIN files : StartsWith(p, ReviewDir) \/ StartsWith(p, InboxDir) }

\* ActivityTracker.update_activity_cost(activity_id, ai_tokens, ai_cost)
UpdateActivityCost(activity_id, tokens) ==
  /\ activities' = update_activity_cost(activities, activity_id, tokens, calculate_cost(tokens))
  /\ activities' # activities
  /\ call' = [ op |-> "update_activity_cost", activity_id |-> activity_id ]
  /\ UNCHANGED <<documents, ai_costs, learning_patterns, insights, fs, config>>

\* EnhancedDocumentGenerator.log_cost_to_db(activity_id, result), for the
\* result of one more generation
LogCost(activity_id, upstream) ==
  /\ Len(ai_costs) < MaxCosts
  /\ LET logged == log_cost_to_db(activities, ai_costs, activity_id,
                                  generate_document(CHOOSE d \in DocTypes : TRUE, upstream))
     IN  /\ activities' = logged.activities
         /\ ai_costs' = logged.ai_costs
  /\ call' = [ op |-> "log_cost_to_db", activity_id |-> activity_id ]
  /\ UNCHANGED <<documents, learning_patterns, insights, fs, config>>

\* ActivityTracker.update_document(doc_id, final_content, review_time_seconds)
UpdateDocument(doc_id, final_content) ==
  /\ documents' = update_document(documents, doc_id, final_content, 300, 80, Now)
  /\ documents' # documents
  /\ call' = [ op |-> "update_document", document_id |-> doc_id ]
  /\ UNCHANGED <<activities, ai_costs, learning_patterns, insights, fs, config>>

\* ActivityTracker.complete_activity(activity_id, human_time_seconds)
CompleteActivity(activity_id) ==
  /\ activities' = complete_activity(activities, activity_id, 300)
  /\ activities' # activities
  /\ call' = [ op |-> "complete_activity", activity_id |-> activity_id ]
  /\ UNCHANGED <<documents, ai_costs, learning_patterns, insights, fs, config>>

EmptyFiles == [ p \in {} |-> << >> ]

Init ==
  /\ activities = << >>
  /\ documents = << >>
  /\ ai_costs = << >>
  /\ learning_patterns = << >>
  /\ insights = << >>
  /\ files = EmptyFiles
  /\ meta = EmptyFiles
  /\ config = [ exists |-> FALSE, force_local |-> FALSE ]
  /\ call = [ op |-> "none" ]

Next ==
  \/ \E doc_type \in DocTypes, licensing_focus \in BOOLEAN, upstream \in LifecycleUpstreams :
       Generate(doc_type, licensing_focus, upstream)
  \/ GenerateBadRequest
  \/ \E filepath \in Submittable : SubmitReview(filepath)
  \/ \E filepath \in { InboxDir \o name : name \in UserFileNames } :
       SubmitReviewNotFound(filepath)
  \/ \E path \in DOMAIN files, body \in ReviewedBodies : HumanEdits(path, body)
  \/ \E name \in UserFileNames, body \in ReviewedBodies : UserSaves(name, body)
  \/ StageTestDocument

Spec == Init /\ [][Next]_vars

(***************************************************************************)
(* The ledger under its cost-recording operations.                         *)
(***************************************************************************)
NextLedger ==
  \/ \E doc_type \in DocTypes, licensing_focus \in BOOLEAN, upstream \in UpstreamChoices :
       Generate(doc_type, licensing_focus, upstream)
  \/ GenerateBadRequest
  \/ \E activity_id \in 1..Len(activities), tokens \in TokenChoices :
       UpdateActivityCost(activity_id, tokens)
  \/ \E activity_id \in 1..Len(activities), upstream \in UpstreamChoices :
       LogCost(activity_id, upstream)

SpecLedger == Init /\ [][NextLedger]_vars

\* The ledger under all the operations of its tracker: those above and the
\* two that record a review.
NextTracker ==
  \/ NextLedger
  \/ \E doc_id \in 1..Len(documents), final_content \in ReviewedBodies :
       UpdateDocument(doc_id, final_content)
  \/ \E activity_id \in 1..Len(activities) : CompleteActivity(activity_id)

SpecTracker == Init /\ [][NextTracker]_vars

(***************************************************************************)
(* The review lifecycle of a document.                                     *)
(***************************************************************************)
\* the states of a document: Draft, PendingReview (staged), Reviewed
IsReviewed(d) == ~IsNull(d.final_content)
IsStaged(d) == ~IsNull(d.review_filepath)

\* C1: a document becomes Reviewed (final_content set) only from
\* PendingReview: in every step that sets the final_content of a document,
\* the document had a review_filepath before the step.
C1_ReviewedOnlyFromPendingReview ==
  [][ \A i \in 1..Len(documents) :
        (~IsReviewed(documents[i]) /\ IsReviewed(documents'[i]))
          => IsStaged(documents[i]) ]_vars

\* C2: once the final_content of a document is set, no step changes it.
C2_FinalContentSetOnce ==
  [][ \A i \in 1..Len(documents) :
        IsReviewed(documents[i])
          => documents'[i].final_content = documents[i].final_content ]_vars

\* C7: a submit-review for an existing file that matches no document ends
\* in an error response, not in a success.
C7_NoMatchIsAnError ==
  (call.op = "submit_review" /\ call.status # 404 /\ call.document_id = 0)
    => call.status >= 400

(***************************************************************************)
(* The ledger's costs.                                                     *)
(***************************************************************************)
\* the cost records of an activity, in the order of their ids
RecordsOf(activity_id) ==
  SelectSeq(ai_costs, LAMBDA r : r.activity_id = activity_id)

\* C3: the ai_cost and ai_tokens_used of every activity are the sums of cost
\* and tokens_used over the cost records of that activity.
C3_CachedTotalsAreSums ==
  \A i \in 1..Len(activities) :
    LET records == RecordsOf(activities[i].id)
    IN  /\ activities[i].ai_cost
             = SumSeq([ k \in 1..Len(records) |-> records[k].cost ])
        /\ activities[i].ai_tokens_used
             = SumSeq([ k \in 1..Len(records) |-> records[k].tokens_used ])

\* a /generate request that got past its validation has just been answered
Generated == call.op = "generate" /\ call.status = 200

\* C8: a generate request whose upstream call fails creates no document row.
C8_FailedUpstreamCreatesNoDocument ==
  [][ (Len(activities') > Len(activities) /\ ~call'.upstream_ok)
        => documents' = documents ]_vars

BudgetChoices == { 0, 2000, 4000 }

\* cost_tracker.get_monthly_spent(): the sum of the month's cost records.
\* Every cost record of a modelled run lies in the current month.
get_monthly_spent == SumSeq([ i \in 1..Len(ai_costs) |-> ai_costs[i].cost ])

\* utilization >= pct, for utilization = (monthly_spent / budget) * 100, budget > 0
UtilizationAtLeast(monthly_spent, budget, pct) == monthly_spent * 100 >= pct * budget

\* The branch check_budget takes: the level of the alert it appends ("OK": none).
TierUpperInclusive(monthly_spent, budget) ==
  IF monthly_spent * 100 > 90 * budget THEN "CRITICAL"
  ELSE IF monthly_spent * 100 > 80 * budget THEN "WARNING"
  ELSE IF monthly_spent * 100 > 50 * budget THEN "INFO"
  ELSE "OK"

\* a tier that escalates: a run that follows a WARNING run reports CRITICAL
TierEscalating(monthly_spent, budget) ==
  IF call.op = "check_budget" /\ call.tier = "WARNING" THEN "CRITICAL"
  ELSE IF UtilizationAtLeast(monthly_spent, budget, 90) THEN "CRITICAL"
  ELSE IF UtilizationAtLeast(monthly_spent, budget, 80) THEN "WARNING"
  ELSE IF UtilizationAtLeast(monthly_spent, budget, 50) THEN "INFO"
  ELSE "OK"

Tier(monthly_spent, budget) ==
  IF UtilizationAtLeast(monthly_spent, budget, 90) THEN "CRITICAL"
  ELSE IF UtilizationAtLeast(monthly_spent, budget, 80) THEN "WARNING"
  ELSE IF UtilizationAtLeast(monthly_spent, budget, 50) THEN "INFO"
  ELSE "OK"

\* cost_guard.py imports os, sys, smtplib, MIMEText and json, and no datetime.
DatetimeImported == FALSE

\* update_config(force_local): the config it leaves on disk, and whether it
\* returned.  Its first statement evaluates datetime.now(): with no datetime
\* in the module it raises NameError before scripts/config.json is opened.
update_config(force_local) ==
  IF DatetimeImported
  THEN [ returned |-> TRUE, config |-> [ exists |-> TRUE, force_local |-> force_local ] ]
  ELSE [ returned |-> FALSE, config |-> config ]

\* A mutant of check_budget's side effect: every run rewrites the config, and
\* a run below CRITICAL clears force_local.
ConfigAfterRunClearing(tier) ==
  [ returned |-> TRUE, config |-> [ exists |-> TRUE, force_local |-> tier = "CRITICAL" ] ]

\* check_budget's side effect on the config, by the tier of the run: only the
\* CRITICAL branch calls update_config.
ConfigAfterRun(tier) ==
  IF tier = "CRITICAL" THEN update_config(TRUE)
  ELSE [ returned |-> TRUE, config |-> config ]

\* The exit code of the command line: 1 for an uncaught exception too.
ExitCode(returned, alerts) ==
  IF ~returned THEN 1
  ELSE IF \E i \in 1..Len(alerts) : alerts[i] = "CRITICAL" THEN 1
  ELSE IF \E i \in 1..Len(alerts) : alerts[i] = "WARNING" THEN 2
  ELSE 0

GovRuns == IF call.op = "check_budget" THEN call.run ELSE 0

\* what the runs since the last cost record saw and reported
EarlierRuns ==
  IF call.op = "check_budget"
  THEN call.earlier \cup { [ monthly_spent |-> call.monthly_spent, budget |-> call.budget,
                             tier |-> call.tier, force_local |-> config.force_local ] }
  ELSE {}

\* One run of the governor under MONTHLY_BUDGET = budget.
CheckBudget(budget) ==
  /\ GovRuns < MaxGovRuns
  /\ LET monthly_spent == get_monthly_spent
     IN  IF budget = 0
         THEN \* monthly_spent / budget raises ZeroDivisionError
              /\ call' = [ op |-> "check_budget", run |-> GovRuns + 1, budget |-> budget,
                           monthly_spent |-> monthly_spent, tier |-> "none",
                           alerts |-> << >>, returned |-> FALSE, exit_code |-> 1,
                           earlier |-> EarlierRuns ]
              /\ UNCHANGED config
         ELSE LET tier   == Tier(monthly_spent, budget)
                  alerts == IF tier = "OK" THEN << >> ELSE << tier >>
                  after  == ConfigAfterRun(tier)
              IN  /\ call' = [ op |-> "check_budget", run |-> GovRuns + 1, budget |-> budget,
                               monthly_spent |-> monthly_spent, tier |-> tier,
                               alerts |-> alerts, returned |-> after.returned,
                               exit_code |-> ExitCode(after.returned, alerts),
                               earlier |-> EarlierRuns ]
                  /\ config' = after.config
  /\ UNCHANGED <<db, fs>>

GovernorRun == \E budget \in BudgetChoices : CheckBudget(budget)

\* scripts/config.json is a file on disk that outlives the runs: a run may
\* find none, or one left with either value.
ConfigChoices ==
  { [ exists |-> FALSE, force_local |-> FALSE ],
    [ exists |-> TRUE, force_local |-> FALSE ],
    [ exists |-> TRUE, force_local |-> TRUE ] }

\* The governor runs beside a ledger that holds one activity, whose cost the
\* generator records.
InitGov ==
  /\ activities = log_activity(<< >>, "documentation_generation", "api",
                               [ doc_type |-> CHOOSE d \in DocTypes : TRUE,
                                 licensing_focus |-> FALSE ], Now)
  /\ documents = << >>
  /\ ai_costs = << >>
  /\ learning_patterns = << >>
  /\ insights = << >>
  /\ files = << >>
  /\ meta = << >>
  /\ config \in ConfigChoices
  /\ call = [ op |-> "none" ]

NextGov ==
  \/ GovernorRun
  \/ \E activity_id \in 1..Len(activities), upstream \in UpstreamChoices :
       LogCost(activity_id, upstream)

SpecGov == InitGov /\ [][NextGov]_vars

\* a governor run that got past the division
GovernorRan == call.op = "check_budget" /\ call.budget > 0

\* C4: for budget > 0 the run's tier is CRITICAL from 90 percent of the
\* budget, WARNING from 80 and below 90, INFO from 50 and below 80, and OK
\* with no alert below 50; exactly 80 percent is WARNING and exactly 50
\* percent is INFO.
C4_TierBoundaries ==
  GovernorRan =>
    LET pct100 == call.monthly_spent * 100
        b      == call.budget
    IN  /\ (pct100 >= 90 * b) <=> (call.tier = "CRITICAL")
        /\ (pct100 >= 80 * b /\ pct100 < 90 * b) <=> (call.tier = "WARNING")
        /\ (pct100 >= 50 * b /\ pct100 < 80 * b) <=> (call.tier = "INFO")
        /\ (pct100 < 50 * b) <=> (call.tier = "OK")
        /\ (call.tier = "OK") <=> (call.alerts = << >>)
        /\ (call.tier # "OK") => (call.alerts = << call.tier >>)
        /\ (pct100 = 80 * b) => (call.tier = "WARNING")
        /\ (pct100 = 50 * b) => (call.tier = "INFO")

\* a second run in a row, at exactly 80 percent of the budget
C4_Witness ==
  /\ GovernorRan
  /\ call.run = 2
  /\ call.monthly_spent * 100 = 80 * call.budget
  /\ call.tier = "WARNING"

\* C5: a run that sees monthly spend at 90 percent of the budget or more
\* reports CRITICAL, and when it has finished the config on disk has
\* force_local = true.
C5_CriticalPersistsForceLocal ==
  (GovernorRan /\ call.monthly_spent * 100 >= 90 * call.budget)
    => /\ call.returned
       /\ call.alerts = << "CRITICAL" >>
       /\ config.exists
       /\ config.force_local

\* C6: a run whose tier is below CRITICAL leaves the config as it was, and
\* force_local, once true, stays true over every later step.
C6_LowerTiersLeaveForceLocal ==
  [][ /\ (call' # call /\ call'.op = "check_budget"
            /\ call'.tier \in { "WARNING", "INFO", "OK" }) => config' = config
      /\ (config.exists /\ config.force_local)
            => (config'.exists /\ config'.force_local) ]_vars

\* a second run, below CRITICAL, with force_local true on disk
C6_Witness ==
  /\ GovernorRan
  /\ call.run = 2
  /\ call.tier \in { "WARNING", "INFO" }
  /\ config.exists
  /\ config.force_local

(***************************************************************************)
(* extract_patterns as a function of two texts.                            *)
(***************************************************************************)
\* The lines the texts are made of: one that starts with a letter and one
\* that starts with a blank.
LineChoices == { << "a" >>, << " ", "b" >> }

MaxLines == 4

RECURSIVE LineLists(_)
LineLists(n) ==
  IF n = 0 THEN { << >> }
  ELSE LET shorter == LineLists(n - 1)
       IN  shorter \cup { Append(ls, l) : ls \in { s \in shorter : Len(s) = n - 1 },
                                           l \in LineChoices }

\* the texts of 1 .. MaxLines lines
TextChoices == { Join(ls, << NL >>) : ls \in { s \in LineLists(MaxLines) : Len(s) > 0 } }

InitDiff ==
  /\ activities = << >>
  /\ documents = << >>
  /\ ai_costs = << >>
  /\ learning_patterns = << >>
  /\ insights = << >>
  /\ files = << >>
  /\ meta = << >>
  /\ config = [ exists |-> FALSE, force_local |-> FALSE ]
  /\ \E original \in TextChoices, revised \in TextChoices :
       call = [ op |-> "texts", original |-> original, revised |-> revised ]

ExtractPatterns ==
  /\ call.op = "texts"
  /\ call' = [ op |-> "extract_patterns", original |-> call.original,
               revised |-> call.revised,
               patterns |-> extract_patterns(call.original, call.revised) ]
  /\ UNCHANGED <<db, fs, config>>

NextDiff == ExtractPatterns

SpecDiff == InitDiff /\ [][NextDiff]_vars

\* revised is original with one or more lines inserted and none removed or
\* changed: original's lines are a proper subsequence of revised's
RECURSIVE IsSubsequence(_, _)
IsSubsequence(xs, ys) ==
  IF Len(xs) = 0 THEN TRUE
  ELSE IF Len(ys) = 0 THEN FALSE
  ELSE IF Head(xs) = Head(ys) THEN IsSubsequence(Tail(xs), Tail(ys))
  ELSE IsSubsequence(xs, Tail(ys))

OnlyAdditions(original, revised) ==
  LET a == Split(original, << NL >>)
      b == Split(revised, << NL >>)
  IN  Len(b) > Len(a) /\ IsSubsequence(a, b)

\* C10: when revised is original with lines inserted and nothing removed or
\* changed, extract_patterns returns exactly one pattern, of type
\* content_added.
C10_OnlyAdditionsOneAddedPattern ==
  (call.op = "extract_patterns" /\ OnlyAdditions(call.original, call.revised))
    => (Len(call.patterns) = 1 /\ call.patterns[1].type = "content_added")

\* C11: for every text t, extract_patterns(t, t) returns the empty list.
C11_EqualTextsNoPatterns ==
  (call.op = "extract_patterns" /\ call.original = call.revised)
    => call.patterns = << >>

\* a text of several lines, one of them starting with a blank, compared with
\* itself
C11_Witness ==
  /\ call.op = "extract_patterns"
  /\ call.original = call.revised
  /\ Len(Split(call.original, << NL >>)) >= 2
  /\ \E k \in 1..Len(Split(call.original, << NL >>)) :
       StartsWith(Split(call.original, << NL >>)[k], << " " >>)
  /\ call.patterns = << >>

\* the removed ('-') or added ('+') lines of the line diff of two texts, after
\* its three header lines
ChangedLines(original, revised, sign) ==
  LET diff == unified_diff(Split(original, << NL >>), Split(revised, << NL >>))
  IN  { k \in 4..Len(diff) : Head(diff[k]) = sign }

PatternsOfType(patterns, type) ==
  { k \in 1..Len(patterns) : patterns[k].type = type }

\* C12: extract_patterns returns at most two patterns, at most one
\* content_removed and at most one content_added; content_removed is there
\* exactly when the line diff has a removed line, content_added exactly when
\* it has an added line.
C12_OnePatternPerKindOfChange ==
  call.op = "extract_patterns" =>
    /\ Len(call.patterns) <= 2
    /\ Cardinality(PatternsOfType(call.patterns, "content_removed")) <= 1
    /\ Cardinality(PatternsOfType(call.patterns, "content_added")) <= 1
    /\ (PatternsOfType(call.patterns, "content_removed") # { })
         <=> (ChangedLines(call.original, call.revised, "-") # { })
    /\ (PatternsOfType(call.patterns, "content_added") # { })
         <=> (ChangedLines(call.original, call.revised, "+") # { })

(***************************************************************************)
(* The lookup of submit_review as a function of the stored documents and   *)
(* of the name of the submitted file.  The ledgers are those that          *)
(* /generate requests leave, with activities of other scripts in between.  *)
(***************************************************************************)
MaxStored == 2
MaxOtherActivities == 1

\* doc_type values of the requests: the name of a template, and a misspelt one
MatchDocTypes == { << "a", "_", "b" >>, << "a", "-", "b" >> }

\* POST /generate, while the run has room for a document
GenerateStored(doc_type, licensing_focus, upstream) ==
  /\ Len(documents) < MaxStored
  /\ GenerateRequest(doc_type, licensing_focus, upstream)

\* python activity_tracker.py: logs an activity that gets no document
LogTestActivity ==
  /\ Len(activities) - Len(documents) < MaxOtherActivities
  /\ activities' = log_activity(activities, "test", "test_script",
                                [ message |-> "Testing activity tracker" ], Now)
  /\ call' = [ op |-> "log_activity", activity_id |-> Len(activities) + 1 ]
  /\ UNCHANGED <<documents, ai_costs, learning_patterns, insights, fs, config>>

NamePrefixes == { << >>, ReviewPrefix, ReviewedPrefix, ReviewPrefix \o ReviewedPrefix }

\* names of the files a reviewer submits: the name of a stored document or of
\* its review file, as it is or behind the prefixes of the review folders
SubmittedNames(docs) ==
  { prefix \o name :
      prefix \in NamePrefixes,
      name \in { Val(docs[i].filename) : i \in 1..Len(docs) }
               \cup { Basename(Val(docs[i].review_filepath)) :
                        i \in { j \in 1..Len(docs) : ~IsNull(docs[j].review_filepath) } } }

\* the lookup of submit_review for a submitted name: what it searches for and
\* the id of the document it finds, 0 for none
LookUp(submitted_filename) ==
  /\ call' = [ op |-> "find_document", submitted_filename |-> submitted_filename,
               search_filename |-> SearchFilename(submitted_filename),
               search_patterns |-> SearchPatterns(submitted_filename),
               document_id |-> FindDocument(documents, submitted_filename) ]
  /\ UNCHANGED <<db, fs, config>>

NextMatch ==
  \/ \E doc_type \in MatchDocTypes, licensing_focus \in BOOLEAN,
        upstream \in { u \in LifecycleUpstreams : u.ok } :
       GenerateStored(doc_type, licensing_focus, upstream)
  \/ LogTestActivity
  \/ \E submitted_filename \in SubmittedNames(documents) : LookUp(submitted_filename)

SpecMatch == Init /\ [][NextMatch]_vars

\* the name without one leading prefix: review_ if it starts with that,
\* otherwise reviewed_ if it starts with that
OnePrefixStripped(name) ==
  IF StartsWith(name, ReviewPrefix) THEN DropFirst(name, Len(ReviewPrefix))
  ELSE IF StartsWith(name, ReviewedPrefix) THEN DropFirst(name, Len(ReviewedPrefix))
  ELSE name

\* C13: the name the lookup searches for is the submitted name with at most
\* one prefix stripped: a leading review_ if present, otherwise a leading
\* reviewed_ if present, nothing further (review_reviewed_X gives reviewed_X).
C13_AtMostOnePrefixStripped ==
  call.op = "find_document" =>
    call.search_filename = OnePrefixStripped(call.submitted_filename)

\* the documents whose filename or review_filepath has p as a substring
Containing(docs, p) ==
  { i \in 1..Len(docs) :
      \/ ~IsNull(docs[i].filename) /\ Contains(Val(docs[i].filename), p)
      \/ ~IsNull(docs[i].review_filepath) /\ Contains(Val(docs[i].review_filepath), p) }

\* the patterns, in their order, that some document contains
PatternsContained(docs, patterns) ==
  SelectSeq(patterns, LAMBDA p : Containing(docs, p) # { })

LicensingFiles(fls) == { p \in DOMAIN fls : StartsWith(p, LicensingDir) }

\* C16: a submit-review request with prepare_for_licensing writes a
\* licensing-ready file only when it matched a document and moved it to
\* Reviewed, and what is licensing-ready stays so: no licensing-ready file
\* is removed and no reviewed document loses its final_content.
C16_LicensingOnlyAfterReconciliation ==
  [][ /\ (call'.op = "submit_review" /\ call'.status = 200
            /\ ~IsNull(call'.licensing_path))
           => /\ call'.document_id # 0
              /\ IsReviewed(documents'[call'.document_id])
      /\ \A p \in LicensingFiles(files) : p \in DOMAIN files'
      /\ \A i \in 1..Len(documents) :
           IsReviewed(documents[i]) => IsReviewed(documents'[i]) ]_vars

(***************************************************************************)
(* The two requests of the review lifecycle write by write: each write of  *)
(* a handler is committed on its own and is a step.  call holds the        *)
(* request in progress and the last write done ("done": answered).         *)
(***************************************************************************)
InitSteps ==
  /\ activities = << >>
  /\ documents = << >>
  /\ ai_costs = << >>
  /\ learning_patterns = << >>
  /\ insights = << >>
  /\ files = EmptyFiles
  /\ meta = EmptyFiles
  /\ config = [ exists |-> FALSE, force_local |-> FALSE ]
  /\ call = [ op |-> "none", at |-> "done" ]

\* /generate: tracker.log_activity
GenerateLogsActivity(doc_type, licensing_focus, upstream) ==
  /\ call.at = "done"
  /\ Len(documents) < MaxDocs
  /\ activities' = log_activity(activities, "documentation_generation", "api",
                                [ doc_type |-> doc_type, licensing_focus |-> licensing_focus ],
                                Now)
  /\ call' = [ op |-> "generate", at |-> "log_activity", doc_type |-> doc_type,
               licensing_focus |-> licensing_focus,
               result |-> generate_document(doc_type, upstream),
               activity_id |-> Len(activities) + 1, document_id |-> 0,
               review_path |-> Null ]
  /\ UNCHANGED <<documents, ai_costs, learning_patterns, insights, fs, config>>

\* /generate: generator.log_cost_to_db
GenerateLogsCost ==
  /\ call.op = "generate" /\ call.at = "log_activity"
  /\ \E logged \in { log_cost_to_db(activities, ai_costs, call.activity_id, call.result) } :
       /\ activities' = logged.activities
       /\ ai_costs' = logged.ai_costs
  /\ call' = [ call EXCEPT !.at = "log_cost_to_db" ]
  /\ UNCHANGED <<documents, learning_patterns, insights, fs, config>>

\* /generate: tracker.save_document; the answer, unless the request asks for
\* review staging
GenerateSavesDocument ==
  /\ call.op = "generate" /\ call.at = "log_cost_to_db"
  /\ documents' = save_document(documents, call.activity_id, call.doc_type,
                                call.result.content,
                                call.doc_type \o << "_" >> \o Str(call.activity_id)
                                  \o << "_" >> \o Timestamp(Now) \o MdSuffix,
                                Now)
  /\ call' = [ call EXCEPT !.at = IF call.licensing_focus THEN "save_document" ELSE "done",
                           !.document_id = Len(documents) + 1 ]
  /\ UNCHANGED <<activities, ai_costs, learning_patterns, insights, fs, config>>

\* /generate: workflow.save_for_review
GenerateSavesForReview ==
  /\ call.op = "generate" /\ call.at = "save_document"
  /\ \E saved \in { save_for_review(files, meta, call.document_id, call.result.content,
                                   call.doc_type,
                                   [ doc_id |-> call.document_id, doc_type |-> call.doc_type,
                                     filename |-> Val(documents[call.document_id].filename),
                                     cost |-> call.result.cost, tokens |-> call.result.tokens,
                                     model |-> call.result.model, generated_at |-> Now,
                                     activity_id |-> call.activity_id, filepath |-> Null,
                                     status |-> "new", saved_at |-> Null,
                                     reviewed_at |-> Null, reviewer |-> Null,
                                     changes_summary |-> Null,
                                     reviewed_filepath |-> Null ], Now) } :
       /\ files' = saved.files
       /\ meta' = saved.meta
       /\ call' = [ call EXCEPT !.at = "save_for_review", !.review_path = Some(saved.path) ]
  /\ UNCHANGED <<db, config>>

\* /generate: tracker.update_document_review_path, and the answer
GenerateRecordsReviewPath ==
  /\ call.op = "generate" /\ call.at = "save_for_review"
  /\ documents' = update_document_review_path(documents, call.document_id,
                                              Val(call.review_path))
  /\ call' = [ call EXCEPT !.at = "done" ]
  /\ UNCHANGED <<activities, ai_costs, learning_patterns, insights, fs, config>>

\* /submit-review for a file that exists: workflow.submit_review, or the
\* fallback path when it raises
SubmitRunsWorkflow(filepath, prepare) ==
  /\ call.at = "done"
  /\ filepath \in DOMAIN files
  /\ \E wf \in { workflow_submit_review(files, meta, learning_patterns, filepath,
                                         files[filepath], "summary", "reviewer", Now) } :
       /\ files' = wf.files
       /\ meta' = wf.meta
       /\ learning_patterns' = wf.learning_patterns
       /\ call' = [ op |-> "submit_review", at |-> "submit_review", filepath |-> filepath,
                    prepare |-> prepare, full_content |-> files[filepath],
                    workflow_ok |-> wf.ok,
                    reviewed_path |-> IF wf.ok THEN wf.reviewed_path
                                      ELSE ReviewDir \o ReviewedPrefix \o Basename(filepath),
                    document_id |-> 0, status |-> 0 ]
  /\ UNCHANGED <<activities, documents, ai_costs, insights, config>>

\* /submit-review: the lookup and the three UPDATEs, committed together; the
\* answer, unless the request asks for the licensing copy
SubmitUpdatesLedger ==
  /\ call.op = "submit_review" /\ call.at = "submit_review"
  /\ \E doc_id \in { FindDocument(documents, Basename(call.filepath)) } :
       /\ IF doc_id # 0
          THEN /\ documents' = update_document_review_path(
                                 update_document(documents, doc_id, call.full_content,
                                                 300, 80, Now),
                                 doc_id, call.reviewed_path)
               /\ activities' = complete_activity(activities,
                                                  documents[doc_id].activity_id, 300)
          ELSE UNCHANGED <<documents, activities>>
       /\ call' = [ call EXCEPT !.at = IF call.prepare THEN "commit" ELSE "done",
                                !.document_id = doc_id,
                                !.status = IF call.prepare THEN 0 ELSE 200 ]
  /\ UNCHANGED <<ai_costs, learning_patterns, insights, fs, config>>

\* /submit-review: workflow.prepare_for_licensing, and the answer (500 when
\* it raises)
SubmitPreparesForLicensing ==
  /\ call.op = "submit_review" /\ call.at = "commit"
  /\ \E lic \in { prepare_for_licensing(files, call.reviewed_path, Now) } :
       /\ files' = lic.files
       /\ call' = [ call EXCEPT !.at = "done", !.status = IF lic.ok THEN 200 ELSE 500 ]
  /\ UNCHANGED <<db, meta, config>>

\* The reviewer edits a staged review file between two requests.
HumanEditsBetween(path, body) ==
  /\ call.at = "done"
  /\ path \in DOMAIN files
  /\ StartsWith(path, ReviewDir)
  /\ files[path] # WithBody(files[path], body)
  /\ files' = WriteFile(files, path, WithBody(files[path], body))
  /\ call' = [ op |-> "edit", at |-> "done", filepath |-> path ]
  /\ UNCHANGED <<db, meta, config>>

NextSteps ==
  \/ \E doc_type \in DocTypes, licensing_focus \in BOOLEAN, upstream \in UpstreamChoices :
       GenerateLogsActivity(doc_type, licensing_focus, upstream)
  \/ GenerateLogsCost
  \/ GenerateSavesDocument
  \/ GenerateSavesForReview
  \/ GenerateRecordsReviewPath
  \/ \E filepath \in { p \in DOMAIN files : StartsWith(p, ReviewDir) }, prepare \in BOOLEAN :
       SubmitRunsWorkflow(filepath, prepare)
  \/ SubmitUpdatesLedger
  \/ SubmitPreparesForLicensing
  \/ \E path \in DOMAIN files, body \in ReviewedBodies : HumanEditsBetween(path, body)

SpecSteps == InitSteps /\ [][NextSteps]_vars

\* the stage of a document, from the columns that are set
Stage(d) ==
  IF IsReviewed(d) THEN "Reviewed" ELSE IF IsStaged(d) THEN "PendingReview" ELSE "Draft"

C18_ReviewedDocumentHasCompletedActivity ==
  /\ [](\A i \in 1..Len(documents) :
          IsReviewed(documents[i])
            => /\ ~IsNull(documents[i].reviewed_at)
               /\ activities[documents[i].activity_id].status = "completed"
               /\ activities[documents[i].activity_id].human_time_seconds > 0)
  /\ [][ \A i \in 1..Len(documents) :
           (documents'[i].final_content # documents[i].final_content)
             => activities'[documents[i].activity_id].status = "completed" ]_vars

\* C19: the cost records are append-only: every step leaves the rows of
\* ai_costs as they are or adds exactly one row after them; no row is changed
\* or removed.
C19_CostRecordsAppendOnly ==
  [][ \/ ai_costs' = ai_costs
      \/ /\ Len(ai_costs') = Len(ai_costs) + 1
         /\ SubSeq(ai_costs', 1, Len(ai_costs)) = ai_costs ]_vars

\* a cost has been logged for an activity that already had a record
C19_Witness ==
  /\ call.op = "log_cost_to_db"
  /\ Len(RecordsOf(call.activity_id)) >= 2
  /\ ai_costs[Len(ai_costs)].activity_id = call.activity_id

(***************************************************************************)
(* The learning system under its two operations on the patterns table.     *)
(***************************************************************************)
MaxPatterns == 1
MaxApplied == 1

\* texts of the two versions of a reviewed document, and of new content
LearnTexts ==
  { << "a" >>, << " ", "b" >>, << "a", NL, " ", "b" >>, << " ", "c", NL, " ", "b" >> }

LearnDocTypes == DocTypes \cup { << "f", "a", "q" >> }

ContentTypes ==
  { << "t", "e", "c", "h", "n", "i", "c", "a", "l" >>, << "l", "e", "g", "a", "l" >> }

\* LearningSystem.save_feedback(doc_id, original, revised, review_time,
\* doc_type), while the table has room for max rows
SaveFeedbackUpTo(max, doc_id, original, revised, doc_type) ==
  /\ \E saved \in { save_feedback(learning_patterns, doc_id, original, revised, doc_type, Now) } :
       /\ Len(saved) <= max
       /\ learning_patterns' = saved
       /\ call' = [ op |-> "save_feedback", saved |-> Len(saved) - Len(learning_patterns) ]
  /\ UNCHANGED <<activities, documents, ai_costs, insights, fs, config>>

SaveFeedback(doc_id, original, revised, doc_type) ==
  SaveFeedbackUpTo(MaxPatterns, doc_id, original, revised, doc_type)

\* LearningSystem.apply_learnings(new_content, content_type), while no
\* applied_count passes max
ApplyLearningsUpTo(max, new_content, content_type) ==
  /\ \E applied \in { apply_learnings(learning_patterns, new_content, content_type) } :
       /\ \A i \in 1..Len(applied.learning_patterns) :
            applied.learning_patterns[i].applied_count <= max
       /\ learning_patterns' = applied.learning_patterns
       /\ call' = [ op |-> "apply_learnings", new_content |-> new_content,
                    content_type |-> content_type, content |-> applied.content ]
  /\ UNCHANGED <<activities, documents, ai_costs, insights, fs, config>>

ApplyLearnings(new_content, content_type) ==
  ApplyLearningsUpTo(MaxApplied, new_content, content_type)

NextLearning ==
  \/ \E original \in LearnTexts, revised \in LearnTexts, doc_type \in LearnDocTypes :
       SaveFeedback(1, original, revised, doc_type)
  \/ \E new_content \in LearnTexts, content_type \in ContentTypes :
       ApplyLearnings(new_content, content_type)

SpecLearning == Init /\ [][NextLearning]_vars

\* C20: for every new content and every stored set of patterns,
\* apply_learnings returns the new content as it was given.
C20_ApplyLearningsReturnsContent ==
  call.op = "apply_learnings" => call.content = call.new_content

\* apply_learnings has met and marked a removal pattern whose example occurs
\* in the content
C20_Witness ==
  /\ call.op = "apply_learnings"
  /\ call.content = call.new_content
  /\ \E i \in 1..Len(learning_patterns) :
       /\ learning_patterns[i].pattern_type = "content_removed"
       /\ learning_patterns[i].applied_count > 0
       /\ Like(Some(learning_patterns[i].context), call.content_type)
       /\ \E k \in 1..Len(learning_patterns[i].correction.examples) :
            /\ learning_patterns[i].correction.examples[k] # << >>
            /\ Contains(call.new_content, learning_patterns[i].correction.examples[k])

(***************************************************************************)
(* The learning system under its three operations, over a ledger in which  *)
(* documents are generated and reviewed.                                   *)
(***************************************************************************)
MaxInsightPatterns == 3
MaxInsights == 2

\* LearningSystem.generate_insights(days)
GenerateInsights(days) ==
  /\ \E table \in generate_insights(documents, learning_patterns, insights, days, Now) :
       /\ Len(table) <= MaxInsights
       /\ insights' = table
       /\ call' = [ op |-> "generate_insights", days |-> days,
                    found |-> Len(table) - Len(insights) ]
  /\ UNCHANGED <<activities, documents, ai_costs, learning_patterns, fs, config>>

NextInsights ==
  \/ \E upstream \in { u \in LifecycleUpstreams : u.ok }, doc_type \in DocTypes :
       Generate(doc_type, FALSE, upstream)
  \/ \E doc_id \in 1..Len(documents), final_content \in ReviewedBodies :
       UpdateDocument(doc_id, final_content)
  \/ \E revised \in { << "a" >>, << " ", "c", NL, " ", "b" >> }, doc_type \in DocTypes :
       SaveFeedbackUpTo(MaxInsightPatterns, 1, << " ", "b" >>, revised, doc_type)
  \/ \E new_content \in { << "a" >>, << " ", "b" >> }, content_type \in DocTypes :
       ApplyLearnings(new_content, content_type)
  \/ GenerateInsights(7)

SpecInsights == Init /\ [][NextInsights]_vars

\* C21: the applied_count of a learning pattern never decreases, whatever
\* save_feedback, apply_learnings and generate_insights calls follow one
\* another.
C21_AppliedCountNeverDecreases ==
  [][ \A i \in 1..Len(learning_patterns) :
        /\ i <= Len(learning_patterns')
        /\ learning_patterns'[i].applied_count >= learning_patterns[i].applied_count ]_vars

\* a pattern that was applied before has been read again by an
\* apply_learnings that did not mark it
C21_Witness ==
  /\ call.op = "apply_learnings"
  /\ insights # << >>
  /\ \E i \in 1..Len(learning_patterns) :
       /\ learning_patterns[i].applied_count > 0
       /\ Like(Some(learning_patterns[i].context), call.content_type)
       /\ TimesApplied(learning_patterns[i], call.new_content) = 0

\* C22: once a learning pattern is created, no operation changes its
\* pattern_type, context, correction, learned_from_doc_id or created_at, and
\* none deletes it: the row stays, with at most its applied_count changed.
C22_PatternImmutableButAppliedCount ==
  [][ \A i \in 1..Len(learning_patterns) :
        /\ i <= Len(learning_patterns')
        /\ learning_patterns'[i].id = learning_patterns[i].id
        /\ learning_patterns'[i].pattern_type = learning_patterns[i].pattern_type
        /\ learning_patterns'[i].context = learning_patterns[i].context
        /\ learning_patterns'[i].correction = learning_patterns[i].correction
        /\ learning_patterns'[i].learned_from_doc_id = learning_patterns[i].learned_from_doc_id
        /\ learning_patterns'[i].created_at = learning_patterns[i].created_at ]_vars

\* a pattern of a type was saved after an earlier pattern of that type had
\* been applied
C22_Witness ==
  /\ call.op = "save_feedback"
  /\ call.saved > 0
  /\ \E i, j \in 1..Len(learning_patterns) :
       /\ i < j
       /\ learning_patterns[i].pattern_type = learning_patterns[j].pattern_type
       /\ learning_patterns[i].applied_count > 0

(***************************************************************************)
(* The header removal of prepare_for_licensing as a function of the        *)
(* content it reads.                                                       *)
(***************************************************************************)
MaxHeaderLines == 3

HeaderLineChoices == { Dashes, << "h" >>, << >>, Dashes \o << "x" >> }

RECURSIVE HeaderLineLists(_)
HeaderLineLists(n) ==
  IF n = 0 THEN { << >> }
  ELSE LET shorter == HeaderLineLists(n - 1)
       IN  shorter \cup { Append(ls, l) : ls \in { t \in shorter : Len(t) = n - 1 },
                                           l \in HeaderLineChoices }

\* the contents of 1 .. MaxHeaderLines lines
HeaderContents ==
  { Join(ls, << NL >>) : ls \in { t \in HeaderLineLists(MaxHeaderLines) : Len(t) > 0 } }

InitHeader ==
  /\ activities = << >>
  /\ documents = << >>
  /\ ai_costs = << >>
  /\ learning_patterns = << >>
  /\ insights = << >>
  /\ files = EmptyFiles
  /\ meta = EmptyFiles
  /\ config = [ exists |-> FALSE, force_local |-> FALSE ]
  /\ \E content \in HeaderContents : call = [ op |-> "content", content |-> content ]

\* the header removal applied to the content
RemoveHeader ==
  /\ call.op = "content"
  /\ call' = [ op |-> "remove_header", content |-> call.content,
               stripped |-> RemoveMetadataHeader(call.content), again |-> Null ]
  /\ UNCHANGED <<db, fs, config>>

\* the header removal applied to what it returned
RemoveHeaderAgain ==
  /\ call.op = "remove_header"
  /\ IsNull(call.again)
  /\ call' = [ call EXCEPT !.again = Some(RemoveMetadataHeader(call.stripped)) ]
  /\ UNCHANGED <<db, fs, config>>

NextHeader == RemoveHeader \/ RemoveHeaderAgain

SpecHeader == InitHeader /\ [][NextHeader]_vars

\* C23: the header removal of prepare_for_licensing is idempotent: applied
\* to its own result it returns that result, also for contents with several
\* '---' lines, consecutive or repeated.
C23_HeaderRemovalIdempotent ==
  (call.op = "remove_header" /\ ~IsNull(call.again)) => Val(call.again) = call.stripped

(***************************************************************************)
(* POST /generate when the ledger may refuse a write (a locked or full     *)
(* database): log_cost_to_db and save_document each catch the exception.   *)
(***************************************************************************)
MaxLedgerRequests == 2

\* str(doc_id) of what save_document returned: the id, or None
StrOrNone(doc_id) ==
  IF IsNull(doc_id) THEN << "N", "o", "n", "e" >> ELSE Str(Val(doc_id))

\* log_cost_to_db with its try/except: when a statement raises nothing is
\* committed and the exception is printed
LogCostCaught(acts, costs, activity_id, result, cost_fails) ==
  IF cost_fails THEN [ ai_costs |-> costs, activities |-> acts ]
  ELSE log_cost_to_db(acts, costs, activity_id, result)

\* save_document with its try/except: the new table and the id, None for the
\* id when a statement raised
SaveDocumentCaught(docs, activity_id, doc_type, draft_content, filename, now, save_fails) ==
  IF save_fails THEN [ documents |-> docs, doc_id |-> Null ]
  ELSE [ documents |-> save_document(docs, activity_id, doc_type, draft_content, filename, now),
         doc_id |-> Some(Len(docs) + 1) ]

\* update_document_review_path: UPDATE ... WHERE id = ?, no row for None
UpdateReviewPathCaught(docs, doc_id, review_filepath) ==
  IF IsNull(doc_id) THEN docs
  ELSE update_document_review_path(docs, Val(doc_id), review_filepath)

\* POST /generate with a 'context', the two caught ledger writes failing or not
GenerateWithLedger(doc_type, licensing_focus, upstream, cost_fails, save_fails) ==
  /\ Len(activities) < MaxLedgerRequests
  /\ LET activity_id == Len(activities) + 1
         acts1  == log_activity(activities, "documentation_generation", "api",
                                [ doc_type |-> doc_type, licensing_focus |-> licensing_focus ],
                                Now)
         result == generate_document(doc_type, upstream)
         logged == LogCostCaught(acts1, ai_costs, activity_id, result, cost_fails)
         filename == doc_type \o << "_" >> \o Str(activity_id) \o << "_" >>
                     \o Timestamp(Now) \o MdSuffix
         stored == SaveDocumentCaught(documents, activity_id, doc_type, result.content,
                                      filename, Now, save_fails)
         metadata == [ doc_id |-> stored.doc_id, doc_type |-> doc_type, filename |-> filename,
                       cost |-> result.cost, tokens |-> result.tokens,
                       model |-> result.model, generated_at |-> Now,
                       activity_id |-> activity_id, filepath |-> Null, status |-> "new",
                       saved_at |-> Null, reviewed_at |-> Null, reviewer |-> Null,
                       changes_summary |-> Null, reviewed_filepath |-> Null ]
         saved  == SaveForReviewOf(files, meta, StrOrNone(stored.doc_id), result.content,
                                   doc_type, metadata, Now)
     IN  /\ activities' = logged.activities
         /\ ai_costs' = logged.ai_costs
         /\ IF licensing_focus
            THEN /\ documents' = UpdateReviewPathCaught(stored.documents, stored.doc_id, saved.path)
                 /\ files' = saved.files
                 /\ meta' = saved.meta
            ELSE /\ documents' = stored.documents
                 /\ UNCHANGED <<files, meta>>
         /\ call' = [ op |-> "generate", status |-> 200, response |-> "success",
                      cost_fails |-> cost_fails, save_fails |-> save_fails,
                      activity_id |-> activity_id, document_id |-> stored.doc_id,
                      cost |-> result.cost, needs_review |-> licensing_focus ]
  /\ UNCHANGED <<learning_patterns, insights, config>>

NextFailure ==
  \E doc_type \in DocTypes, licensing_focus \in BOOLEAN, upstream \in LifecycleUpstreams,
     cost_fails \in BOOLEAN, save_fails \in BOOLEAN :
       GenerateWithLedger(doc_type, licensing_focus, upstream, cost_fails, save_fails)

SpecFailure == Init /\ [][NextFailure]_vars

\* C24: a generate request in which saving the Document or recording the
\* cost failed does not answer success: a success answer carries the id of
\* a stored Document and the request's cost is in the ledger.
C24_NoSuccessAfterFailedLedgerWrite ==
  (call.op = "generate" /\ call.response = "success") =>
     /\ ~call.cost_fails /\ ~call.save_fails
     /\ ~IsNull(call.document_id)
     /\ \E i \in 1..Len(documents) : documents[i].id = Val(call.document_id)
     /\ \E i \in 1..Len(ai_costs) : ai_costs[i].activity_id = call.activity_id

(***************************************************************************)
(* /submit-review requests served concurrently (the server handles each    *)
(* request on its own thread).  A request reads the submitted file, runs   *)
(* the workflow, then looks the document up and updates it in one          *)
(* transaction.  call.requests holds each request's position and locals,   *)
(* call.writes the requests in the order their transactions committed.     *)
(***************************************************************************)
MaxRequests == 2

Requests == 1..MaxRequests

IdleRequest ==
  [ at |-> "idle", filepath |-> << >>, full_content |-> << >>, reviewed_path |-> << >>,
    document_id |-> 0, status |-> 0 ]

\* the ledger and the files after one POST /generate with licensing_focus
StagedLedger(doc_type, upstream) ==
  LET acts1  == log_activity(<< >>, "documentation_generation", "api",
                             [ doc_type |-> doc_type, licensing_focus |-> TRUE ], Now)
      result == generate_document(doc_type, upstream)
      logged == log_cost_to_db(acts1, << >>, 1, result)
      filename == doc_type \o << "_" >> \o Str(1) \o << "_" >> \o Timestamp(Now) \o MdSuffix
      docs1  == save_document(<< >>, 1, doc_type, result.content, filename, Now)
      metadata == [ doc_id |-> 1, doc_type |-> doc_type, filename |-> filename,
                    cost |-> result.cost, tokens |-> result.tokens,
                    model |-> result.model, generated_at |-> Now,
                    activity_id |-> 1, filepath |-> Null, status |-> "new",
                    saved_at |-> Null, reviewed_at |-> Null, reviewer |-> Null,
                    changes_summary |-> Null, reviewed_filepath |-> Null ]
      saved  == save_for_review(EmptyFiles, EmptyFiles, 1, result.content, doc_type,
                                metadata, Now)
  IN  [ activities |-> logged.activities, ai_costs |-> logged.ai_costs,
        documents |-> update_document_review_path(docs1, 1, saved.path),
        files |-> saved.files, meta |-> saved.meta ]

InitConcurrent ==
  /\ \E doc_type \in DocTypes, upstream \in { u \in LifecycleUpstreams : u.ok } :
       \E staged \in { StagedLedger(doc_type, upstream) } :
         /\ activities = staged.activities
         /\ documents = staged.documents
         /\ ai_costs = staged.ai_costs
         /\ files = staged.files
         /\ meta = staged.meta
  /\ learning_patterns = << >>
  /\ insights = << >>
  /\ config = [ exists |-> FALSE, force_local |-> FALSE ]
  /\ call = [ op |-> "none", requests |-> [ r \in Requests |-> IdleRequest ],
              writes |-> << >> ]

\* request r: open(filepath).read() of an existing file
ConcurrentReads(r, filepath) ==
  /\ call.requests[r].at = "idle"
  /\ filepath \in DOMAIN files
  /\ call' = [ call EXCEPT !.op = "submit_review",
                           !.requests[r] = [ IdleRequest EXCEPT !.at = "read",
                                                                !.filepath = filepath,
                                                                !.full_content = files[filepath] ] ]
  /\ UNCHANGED <<db, fs, config>>

\* request r: workflow.submit_review, or the fallback path when it raises
ConcurrentRunsWorkflow(r) ==
  /\ call.requests[r].at = "read"
  /\ \E req \in { call.requests[r] } :
     \E wf \in { workflow_submit_review(files, meta, learning_patterns, req.filepath,
                                         req.full_content, "summary", "reviewer", Now) } :
       /\ files' = wf.files
       /\ meta' = wf.meta
       /\ learning_patterns' = wf.learning_patterns
       /\ call' = [ call EXCEPT !.op = "submit_review",
                                !.requests[r].at = "workflow",
                                !.requests[r].reviewed_path =
                                   IF wf.ok THEN wf.reviewed_path
                                   ELSE ReviewDir \o ReviewedPrefix \o Basename(req.filepath) ]
  /\ UNCHANGED <<activities, documents, ai_costs, insights, config>>

\* request r: the lookup and the three UPDATEs, committed together, and the
\* answer (prepare_for_licensing not asked for)
ConcurrentUpdatesLedger(r) ==
  /\ call.requests[r].at = "workflow"
  /\ \E req \in { call.requests[r] } :
     \E doc_id \in { FindDocument(documents, Basename(req.filepath)) } :
       /\ IF doc_id # 0
          THEN /\ documents' = update_document_review_path(
                                 update_document(documents, doc_id, req.full_content,
                                                 300, 80, Now),
                                 doc_id, req.reviewed_path)
               /\ activities' = complete_activity(activities,
                                                  documents[doc_id].activity_id, 300)
          ELSE UNCHANGED <<documents, activities>>
       /\ call' = [ call EXCEPT !.op = "submit_review",
                                !.requests[r].at = "done",
                                !.requests[r].document_id = doc_id,
                                !.requests[r].status = 200,
                                !.writes = IF doc_id # 0 THEN Append(@, r) ELSE @ ]
  /\ UNCHANGED <<ai_costs, learning_patterns, insights, fs, config>>

\* The reviewer saves the staged file with another body while requests run.
ReviewerEditsMeanwhile(path, body) ==
  /\ path \in DOMAIN files
  /\ StartsWith(path, ReviewDir)
  /\ files[path] # WithBody(files[path], body)
  /\ files' = WriteFile(files, path, WithBody(files[path], body))
  /\ call' = [ call EXCEPT !.op = "edit" ]
  /\ UNCHANGED <<db, meta, config>>

NextConcurrent ==
  \/ \E r \in Requests, filepath \in DOMAIN files : ConcurrentReads(r, filepath)
  \/ \E r \in Requests : ConcurrentRunsWorkflow(r)
  \/ \E r \in Requests : ConcurrentUpdatesLedger(r)
  \/ \E path \in DOMAIN files, body \in ReviewedBodies : ReviewerEditsMeanwhile(path, body)

SpecConcurrent == InitConcurrent /\ [][NextConcurrent]_vars

\* the requests that wrote document d, in the order they wrote
WritersOf(d) == SelectSeq(call.writes, LAMBDA r : call.requests[r].document_id = d)

ProductNames == { << "P" >> }
PackageVersions == { << "1", ".", "0" >> }

\* POST /create-licensing-package
CreateLicensingPackage(product_name, version) ==
  /\ \E package \in generate_licensing_package(files, meta, product_name, version, Now) :
       /\ files' = package.files
       /\ meta' = package.meta
       /\ call' = [ op |-> "create_licensing_package", status |-> 200,
                    package_path |-> package.path ]
  /\ UNCHANGED <<db, config>>

InitShared ==
  /\ activities = << >>
  /\ documents = << >>
  /\ ai_costs = << >>
  /\ learning_patterns = << >>
  /\ insights = << >>
  /\ files = EmptyFiles
  /\ meta = EmptyFiles
  /\ config \in ConfigChoices
  /\ call = [ op |-> "none" ]

NextShared ==
  \/ \E doc_type \in DocTypes, upstream \in { u \in UpstreamChoices : u.ok } :
       Generate(doc_type, TRUE, upstream)
  \/ GenerateBadRequest
  \/ \E filepath \in { p \in DOMAIN files : StartsWith(p, ReviewDir) } : SubmitReview(filepath)
  \/ \E new_content \in GeneratedContents, content_type \in DocTypes :
       ApplyLearnings(new_content, content_type)
  \/ \E product_name \in ProductNames, version \in PackageVersions :
       CreateLicensingPackage(product_name, version)
  \/ GovernorRun

SpecShared == InitShared /\ [][NextShared]_vars

\* C26: force_local of the configuration is written by the governor only:
\* every step of a generate, staging, submit-review, learning or packaging
\* operation leaves the configuration as it was, however the operations
\* interleave with governor runs.
C26_OnlyGovernorWritesForceLocal ==
  [][ call'.op # "check_budget" => config' = config ]_vars

\* a package built from a licensing copy while force_local is set
C26_Witness ==
  /\ call.op = "create_licensing_package"
  /\ \E p \in DOMAIN files : StartsWith(p, call.package_path \o LicensingPrefix)
  /\ config.exists
  /\ config.force_local

\* C27: the command line exits with 1 exactly when the run's tier is
\* CRITICAL, with 2 exactly when it is WARNING and with 0 otherwise, and a
\* run that exits with 1 has left force_local = true in the configuration.
C27_ExitCodeFollowsTier ==
  GovernorRan =>
    /\ (call.exit_code = 1) <=> (call.tier = "CRITICAL")
    /\ (call.exit_code = 2) <=> (call.tier = "WARNING")
    /\ (call.exit_code = 0) <=> (call.tier \notin { "CRITICAL", "WARNING" })
    /\ (call.exit_code = 1) => (config.exists /\ config.force_local)

(***************************************************************************)
(* Governor runs over a configuration that changes hands between them:     *)
(* scripts/config.json is a plain file an operator may rewrite or remove.  *)
(***************************************************************************)
OperatorLeavesConfig(left) ==
  /\ call.op = "check_budget"
  /\ config # left
  /\ config' = left
  /\ UNCHANGED <<db, fs, call>>

NextReruns ==
  \/ NextGov
  \/ \E left \in ConfigChoices : OperatorLeavesConfig(left)

SpecReruns == InitGov /\ [][NextReruns]_vars

C29_ReviewedOnlyWithLearningExtraction ==
  [][ (\E i \in 1..Len(documents) :
          ~IsReviewed(documents[i]) /\ IsReviewed(documents'[i]))
        => (call'.op = "submit_review" /\ call'.workflow_ok) ]_vars

\* C30: generate_insights only appends insight rows: every row the insights
\* table had before a call is unchanged after it, and the call changes no
\* row of documents, activities, ai_costs or learning_patterns.
C30_GenerateInsightsOnlyAppends ==
  [][ call'.op = "generate_insights"
        => /\ Len(insights') >= Len(insights)
           /\ SubSeq(insights', 1, Len(insights)) = insights
           /\ documents' = documents
           /\ activities' = activities
           /\ ai_costs' = ai_costs
           /\ learning_patterns' = learning_patterns ]_vars

\* a call that reported an insight again, over a table that held one
C30_Witness ==
  /\ call.op = "generate_insights"
  /\ call.found > 0
  /\ Len(insights) > call.found
  /\ \E i \in 1..(Len(insights) - call.found) :
       insights[i].metric_name = insights[Len(insights)].metric_name
  /\ learning_patterns # << >>

\* the rows the last generate_insights call added
RowsOfLastCall == SubSeq(insights, Len(insights) - call.found + 1, Len(insights))

\* the number of patterns of the type created in the last `days` days
CreatedInWindow(type, days) ==
  Cardinality({ i \in 1..Len(learning_patterns) :
                  /\ learning_patterns[i].pattern_type = type
                  /\ learning_patterns[i].created_at >= Now - days * 86400 })

ChangedLinesInOrder(original, revised, sign) ==
  LET diff == unified_diff(Split(original, << NL >>), Split(revised, << NL >>))
      body == SubSeq(diff, 4, Len(diff))
      hit  == SelectSeq(body, LAMBDA line : Head(line) = sign)
  IN  [ k \in 1..Len(hit) |-> Tail(hit[k]) ]

\* C32: when the diff of the two texts has n >= 1 removed lines, the
\* content_removed pattern has the first min(3, n) of them, in diff order, as
\* examples and n as count; likewise content_added for the added lines.
C32_ExamplesAreFirstThreeChangedLines ==
  call.op = "extract_patterns" =>
    \A kind \in { << "-", "content_removed" >>, << "+", "content_added" >> } :
      LET lines == ChangedLinesInOrder(call.original, call.revised, kind[1])
          found == SelectSeq(call.patterns, LAMBDA q : q.type = kind[2])
      IN  Len(lines) >= 1
            => /\ Len(found) = 1
               /\ found[1].examples = SubSeq(lines, 1, IF Len(lines) < 3 THEN Len(lines) ELSE 3)
               /\ found[1].count = Len(lines)

(***************************************************************************)
(* apply_learnings over tables in which reviews of several document types  *)
(* have left patterns, some of them with the same correction.              *)
(***************************************************************************)
MaxMarkedPatterns == 2
MaxMarks == 4

\* what the reviews changed: " c" and " b" removed, or " c" added
MarkOriginals == { << " ", "c", NL, " ", "b" >>, << " ", "b" >> }
MarkRevisions == { << "a" >>, << " ", "c", NL, " ", "b" >> }

NextMarks ==
  \/ \E original \in MarkOriginals, revised \in MarkRevisions, doc_type \in LearnDocTypes :
       SaveFeedbackUpTo(MaxMarkedPatterns, 1, original, revised, doc_type)
  \/ \E new_content \in { << "a" >>, << "c", NL, "b" >>, << "b" >> },
        content_type \in ContentTypes :
       ApplyLearningsUpTo(MaxMarks, new_content, content_type)

SpecMarks == Init /\ [][NextMarks]_vars

\* the ids of the rows an apply_learnings call for the content type fetches
FetchedIds(content_type) ==
  { SelectedPatterns(learning_patterns, content_type)[k].id :
      k \in 1..Len(SelectedPatterns(learning_patterns, content_type)) }

\* C33: in one apply_learnings call, a fetched content_removed pattern with
\* an example that occurs in the new content has its applied_count raised by
\* exactly one, however many of its examples occur, and a fetched
\* content_removed pattern with no such example keeps its applied_count.
C33_RemovedPatternMarkedOnce ==
  [][ call'.op = "apply_learnings" =>
        \A i \in 1..Len(learning_patterns) :
          ( /\ learning_patterns[i].id \in FetchedIds(call'.content_type)
            /\ learning_patterns[i].pattern_type = "content_removed" )
          => learning_patterns'[i].applied_count
               = learning_patterns[i].applied_count
                 + (IF \E k \in 1..Len(learning_patterns[i].correction.examples) :
                         Contains(call'.new_content,
                                  learning_patterns[i].correction.examples[k])
                    THEN 1 ELSE 0) ]_vars

\* C34: in one apply_learnings call, a fetched content_added pattern whose
\* first example is not empty and does not occur in the new content has its
\* applied_count raised by exactly one, and a fetched content_added pattern
\* whose first example occurs in it keeps its applied_count.
C34_AddedPatternMarkedOnce ==
  [][ call'.op = "apply_learnings" =>
        \A i \in 1..Len(learning_patterns) :
          ( /\ learning_patterns[i].id \in FetchedIds(call'.content_type)
            /\ learning_patterns[i].pattern_type = "content_added" )
          => learning_patterns'[i].applied_count
               = learning_patterns[i].applied_count
                 + (IF /\ Head(learning_patterns[i].correction.examples) # << >>
                       /\ ~Contains(call'.new_content,
                                    Head(learning_patterns[i].correction.examples))
                    THEN 1 ELSE 0) ]_vars

\* C35: apply_learnings changes the applied_count only of the patterns it
\* fetched for the call: a pattern whose context does not match the content
\* type, or that is not among the fetched ones, keeps its applied_count,
\* also when its correction equals that of a fetched pattern.
C35_OnlyFetchedPatternsMarked ==
  [][ call'.op = "apply_learnings" =>
        \A i \in 1..Len(learning_patterns) :
          learning_patterns[i].id \notin FetchedIds(call'.content_type)
            => learning_patterns'[i].applied_count = learning_patterns[i].applied_count ]_vars

(***************************************************************************)
(* Review submissions: for staged files, for files of the user, and for    *)
(* paths that name no file.                                                *)
(***************************************************************************)
\* data['filepath'] of the requests for a file that does not exist: a name
\* under inbox/ or under the review folder
MissingPaths ==
  { dir \o name : dir \in { InboxDir, ReviewDir }, name \in UserFileNames }

NextReview ==
  \/ \E doc_type \in DocTypes, licensing_focus \in BOOLEAN,
        upstream \in { u \in LifecycleUpstreams : u.ok } :
       Generate(doc_type, licensing_focus, upstream)
  \/ \E filepath \in Submittable : SubmitReview(filepath)
  \/ \E filepath \in MissingPaths : SubmitReviewNotFound(filepath)
  \/ GenerateBadRequest
  \/ \E name \in UserFileNames, body \in ReviewedBodies : UserSaves(name, body)

SpecReview == Init /\ [][NextReview]_vars

\* C36: a submit-review request whose filepath names no existing file is
\* answered 404 and changes nothing: no document, activity or learning
\* pattern row, and no file (approved, licensing-ready or sidecar).
C36_NotFoundChangesNothing ==
  [][ ( /\ call'.op = "submit_review"
        /\ ~Exists(files, meta, call'.filepath) )
      => /\ call'.status = 404
         /\ documents' = documents
         /\ activities' = activities
         /\ learning_patterns' = learning_patterns
         /\ files' = files
         /\ meta' = meta ]_vars

\* a not-found answer for a name that a stored document would have matched
C36_Witness ==
  /\ call.op = "submit_review"
  /\ call.status = 404
  /\ ~Exists(files, meta, call.filepath)
  /\ FirstMatch(documents, SearchPatterns(Basename(call.filepath)), 1) # 0

\* C37: a submit-review request for an existing file whose name matches no
\* document modifies no document row and no activity row.
C37_NoMatchLeavesLedger ==
  [][ ( /\ call'.op = "submit_review"
        /\ Exists(files, meta, call'.filepath)
        /\ FirstMatch(documents, SearchPatterns(Basename(call'.filepath)), 1) = 0 )
      => /\ documents' = documents
         /\ activities' = activities ]_vars

\* the request was answered for a file no stored document matches, while the
\* ledger holds a document
C37_Witness ==
  /\ call.op = "submit_review"
  /\ call.status # 404
  /\ call.document_id = 0
  /\ ~call.database_updated
  /\ Len(documents) > 0

\* the place of an activity status on pending -> generated -> completed
StatusRank(status) ==
  CASE status = "pending"   -> 0
    [] status = "generated" -> 1
    [] status = "completed" -> 2

\* C38: under the ledger's operations the status of an activity only moves
\* forward along pending -> generated -> completed: no step sets a
\* completed activity back to generated or pending, nor a generated one back
\* to pending.
C38_StatusOnlyMovesForward ==
  [][ \A i \in 1..Len(activities) :
        StatusRank(activities'[i].status) >= StatusRank(activities[i].status) ]_vars

\* the line that closes a header block opened by the first line: the first
\* '---' line after it, 0 when there is none
ClosingLine(lines) ==
  IF \E k \in 2..Len(lines) : lines[k] = Dashes
  THEN SetMin({ k \in 2..Len(lines) : lines[k] = Dashes })
  ELSE 0

\* C39: for a content that begins with a header block, an opening '---'
\* line and a closing '---' line after it, the header removal of
\* prepare_for_licensing removes the whole block: what it returns is the
\* text after the closing line, with no header line and no delimiter of the
\* block left in it.
C39_WholeHeaderBlockRemoved ==
  ( /\ call.op = "remove_header"
    /\ Head(Split(call.content, << NL >>)) = Dashes
    /\ ClosingLine(Split(call.content, << NL >>)) # 0 )
  => LET lines == Split(call.content, << NL >>)
     IN  call.stripped
           = Strip(Join(SubSeq(lines, ClosingLine(lines) + 1, Len(lines)), << NL >>))

\* C40: when a submit-review request for the review file of a document runs
\* the learning extraction, the original text the extraction reads (the body
\* of the file at original_path) is the draft of the document as it was
\* generated, surrounding blanks aside, and the
\* revised text (the body of the approved file) is the reviewer's content:
\* a review that changed the body is compared with the draft, not with itself.
C40_LearningComparesDraftWithReview ==
  [][ ( /\ call'.op = "submit_review"
        /\ call'.status # 404
        /\ call'.workflow_ok
        /\ call'.document_id # 0
        /\ documents[call'.document_id].review_filepath = Some(call'.filepath) )
      => LET original == extract_body(files[call'.filepath])
             revised  == extract_body(files'[call'.reviewed_path])
             draft    == Strip(documents[call'.document_id].draft_content)
         IN  /\ original = draft
             /\ revised = extract_body(files[call'.filepath])
             /\ revised # draft => original # revised ]_vars

====
